---- MODULE Spec2Model ----
(***************************************************************************)
(* A model of scrapling's static HTTP engine and its toolbelt:             *)
(*   - ResponseEncoding.get_value        (engines/toolbelt/custom.py)      *)
(*   - StaticEngine._headers_job, _prepare_response, _make_request         *)
(*                                        (engines/static.py)              *)
(*   - the Fetcher facades                (fetchers.py)                    *)
(* Strings that the code parses are modelled as the token sequences the    *)
(* parser splits them into, so that parsing is computed and not assumed.   *)
(***************************************************************************)
EXTENDS Naturals, Sequences, FiniteSets, TLC

VARIABLES
    enc_ct,      \* get_value: the content_type argument of the last call
    enc_text,    \* get_value: the text argument of the last call
    enc_res,     \* get_value: the outcome of the last call
    hdr_caller,  \* the caller's headers mapping object, as it is now
    hdr_none,    \* the caller passes no headers (None) instead of a mapping
    hdr_before,  \* the caller's mapping as it was when the last call was made
    hdr_sent,    \* the mapping _headers_job returned to the last call
    hdr_url,     \* the engine's url at the last call
    hdr_stealth, \* the engine's stealth flag at the last call
    hdr_gen,     \* what generate_headers returned to the last call
    hdr_calls,   \* the number of calls made with the caller's mapping
    rsp_in,      \* _prepare_response: the transport's response
    rsp_args,    \* _prepare_response: the engine's adaptor_arguments
    rsp_out,     \* _prepare_response: the Response returned
    fc_entry,      \* the facade entry point of the last call, "none" before any
    fc_url,        \* the url argument of the last call
    fc_config,     \* the custom_config argument of the last call
    fc_error,      \* the exception that left the last call, "none" without one
    fc_built,      \* the last call ran an engine's constructor
    fc_dispatched, \* the last call handed a request to the transport or browser
    fc_args,       \* the adaptor arguments the last call handed to its engine
    fc_engine,     \* the static engine the last call used
    engine_cache,  \* lru_cache of StaticEngine: keys and their engines, most recent last
    parser_defaults, \* the fetcher class's parser attributes, as they are now
    cfg_before,      \* the parser attributes as they were when configure was last called
    cfg_kwargs,      \* the keyword arguments of the last configure call, in order
    cfg_error,       \* the exception that left the last configure call, "pending" before any
    rq_in,         \* the static request in progress: its entry point, arguments and environment
    rq_pc,         \* where the request is inside _make_request / _async_make_request
    rq_client,     \* the transport client the request opened
    rq_sent,       \* the verb calls the request made on a client, in order
    rq_result,     \* what the call gave its caller: a Response or the exception raised
    rq_count,      \* the number of requests started
    open_clients,  \* the ids of the transport clients that are open
    closed_clients, \* the ids of the transport clients that were closed
    ce_engine,     \* CustomFetcher.fetch: the browser_engine class given
    ce_res,        \* what the check and the fetch after it did with it
    tv_in,         \* check_type_validity: the arguments of the call
    tv_res,        \* check_type_validity: the outcome of the call
    cls_own,       \* every fetcher class's own parser attributes (its __dict__)
    cls_call,      \* the last configure call: its class, keyword arguments and exception
    cc_engines,    \* concurrent requests: the engines the cache holds
    cc_shared,     \* the headers mapping object several requests are given
    cc_task,       \* every concurrent request: its arguments, position and outcome
    pa_res         \* _generate_parser_arguments: the class attributes read and the dict returned

encVars == <<enc_ct, enc_text, enc_res>>
hdrVars == <<hdr_caller, hdr_none, hdr_before, hdr_sent, hdr_url, hdr_stealth, hdr_gen, hdr_calls>>
rspVars == <<rsp_in, rsp_args, rsp_out>>
fcVars ==
    <<fc_entry, fc_url, fc_config, fc_error, fc_built, fc_dispatched, fc_args, fc_engine, engine_cache>>
cfgVars == <<parser_defaults, cfg_before, cfg_kwargs, cfg_error>>
rqVars == <<rq_in, rq_pc, rq_client, rq_sent, rq_result, rq_count, open_clients, closed_clients>>
ceVars == <<ce_engine, ce_res>>
tvVars == <<tv_in, tv_res>>
clsVars == <<cls_own, cls_call>>
ccVars == <<cc_engines, cc_shared, cc_task>>
paVars == <<pa_res>>
vars == <<encVars, hdrVars, rspVars, fcVars, cfgVars, rqVars, ceVars, tvVars, clsVars, ccVars, paVars>>

\* what a step of one part of the program leaves alone
notEncVars == <<hdrVars, rspVars, fcVars, cfgVars, rqVars, ceVars, tvVars, clsVars, ccVars, paVars>>
notHdrVars == <<encVars, rspVars, fcVars, cfgVars, rqVars, ceVars, tvVars, clsVars, ccVars, paVars>>
notRspVars == <<encVars, hdrVars, fcVars, cfgVars, rqVars, ceVars, tvVars, clsVars, ccVars, paVars>>
notFcVars == <<encVars, hdrVars, rspVars, cfgVars, rqVars, ceVars, tvVars, clsVars, ccVars, paVars>>
notCfgVars == <<encVars, hdrVars, rspVars, fcVars, rqVars, ceVars, tvVars, clsVars, ccVars, paVars>>
notRqVars == <<encVars, hdrVars, rspVars, fcVars, cfgVars, ceVars, tvVars, clsVars, ccVars, paVars>>
notCeVars == <<encVars, hdrVars, rspVars, fcVars, cfgVars, rqVars, tvVars, clsVars, ccVars, paVars>>
notTvVars == <<encVars, hdrVars, rspVars, fcVars, cfgVars, rqVars, ceVars, clsVars, ccVars, paVars>>
notClsVars == <<encVars, hdrVars, rspVars, fcVars, cfgVars, rqVars, ceVars, tvVars, ccVars, paVars>>
notCcVars == <<encVars, hdrVars, rspVars, fcVars, cfgVars, rqVars, ceVars, tvVars, clsVars, paVars>>
notPaVars == <<encVars, hdrVars, rspVars, fcVars, cfgVars, rqVars, ceVars, tvVars, clsVars, ccVars>>

(***************************************************************************)
(* Bounds of the model.                                                    *)
(***************************************************************************)
\* The number of ';'-separated parameters after the media type of a header.
MaxParams == 2
\* The number of headers in the mapping a caller builds.
MaxCallerHeaders == 2
\* The number of requests a caller makes with one headers mapping.
MaxCalls == 2
\* The number of redirects the transport follows for one request.
MaxRedirects == 2
\* The number of keyword arguments of one configure call.
MaxKwargs == 2
\* The number of static requests made one after the other.
MaxRequests == 2
\* The number of parameters in the definition of an engine's fetch.
MaxFetchParameters == 2
\* The number of types in a valid_types list.
MaxValidTypes == 2
\* The number of requests that run at once.
MaxTasks == 2

(***************************************************************************)
(* Strings.  A header value is the sequence of its ';'-separated segments; *)
(* a segment is  name  or  name=value, the value possibly wrapped in one   *)
(* pair of quoting characters.                                             *)
(***************************************************************************)
\* q: "none" (bare), "dq" ("v"), "sq" ('v'), "angle" (<v>)
Quotes == {"none", "dq", "sq", "angle"}

CharsetNames == {"utf-8", "ascii", "ISO-8859-1", "bogus", ""}

Seg(name, eq, q, v) == [name |-> name, eq |-> eq, q |-> q, v |-> v]

\* The first segment of a header: what stands where the media type belongs.
MediaTokens == {"text/html", "TEXT/HTML", "text/plain", "text/css", "text/javascript",
                "application/json", "text/xml", "image/png", "utf-8", "a/b/c",
                "charset", ""}

FirstSegs == {Seg(m, FALSE, "none", "") : m \in MediaTokens}
             \cup {Seg("charset", TRUE, "none", "ascii")}

\* the charset names that also occur quoted
QuotedNames == {"ascii", "bogus"}

ParamSegs == {Seg("charset", TRUE, "none", v) : v \in CharsetNames}
             \cup {Seg("charset", TRUE, q, v) : q \in Quotes \ {"none"}, v \in QuotedNames}
             \cup {Seg("CHARSET", TRUE, "none", "ascii"),
                   Seg("CHARSET", FALSE, "none", ""),
                   Seg("charset", FALSE, "none", ""),
                   Seg("charset*", TRUE, "none", "ascii"),
                   Seg("boundary", TRUE, "none", "x"),
                   Seg("content-type", TRUE, "none", "ascii")}

RECURSIVE SeqsUpTo(_, _)
SeqsUpTo(S, n) ==
    IF n = 0 THEN {<< >>}
    ELSE LET shorter == SeqsUpTo(S, n - 1)
         IN  shorter \cup {Append(s, x) : s \in shorter, x \in S}

\* A str argument: the header's segments.  None is a value of its own.
NoneValue == [none |-> TRUE, segs |-> << >>]
Str(segs) == [none |-> FALSE, segs |-> segs]

HeaderStrings == {Str(<<f>> \o ps) : f \in FirstSegs, ps \in SeqsUpTo(ParamSegs, MaxParams)}
ContentTypes == {NoneValue} \cup HeaderStrings

\* "" is the one-segment string whose segment is empty.
EmptyString == Str(<<Seg("", FALSE, "none", "")>>)

\* Truthy with the test narrowed to `is not None`
TruthyNotNone(s) == ~s.none

\* Python truthiness of an Optional[str]
Truthy(s) == ~s.none /\ s # EmptyString

\* str.lower() on the tokens of the model
Lower(s) ==
    CASE s = "TEXT/HTML"       -> "text/html"
      [] s = "CHARSET"         -> "charset"
      [] s = "User-Agent"      -> "user-agent"
      [] s = "Referer"         -> "referer"
      [] s = "Accept"          -> "accept"
      [] s = "Accept-Language" -> "accept-language"
      [] s = "X-Custom"        -> "x-custom"
      [] s = "Keep_Comments"   -> "keep_comments"
      [] OTHER                 -> s

\* str.count('/') on the tokens of the model
SlashCount(s) ==
    CASE s \in {"text/html", "TEXT/HTML", "text/plain", "text/css", "text/javascript",
                "application/json", "text/xml", "image/png"} -> 1
      [] s = "a/b/c" -> 2
      [] OTHER -> 0

\* The text of a quoted value, as written in the header
Render(q, v) ==
    CASE q = "none"  -> v
      [] q = "dq"    -> "\"" \o v \o "\""
      [] q = "sq"    -> "'" \o v \o "'"
      [] q = "angle" -> "<" \o v \o ">"

\* The text of a segment
SegText(s) == IF s.eq THEN s.name \o "=" \o Render(s.q, s.v) ELSE s.name

(***************************************************************************)
(* Sample texts and codecs: str.encode(name) looks the codec up and        *)
(* encodes iff every character of the text is in the codec's repertoire.   *)
(***************************************************************************)
NoneText == "<None>"
Texts == {"test", "", "e-acute", "euro-sign", "lone-surrogate"}
TextValues == Texts \cup {NoneText}

\* The widest character class found in a text
CharClass(text) ==
    CASE text = "e-acute"        -> "latin1"
      [] text = "euro-sign"      -> "bmp"
      [] text = "lone-surrogate" -> "surrogate"
      [] OTHER                   -> "ascii"

\* codecs.lookup: the codec a name denotes, "unknown" when there is none
CodecOf(name) ==
    CASE name = "utf-8"      -> "utf-8"
      [] name = "ascii"      -> "ascii"
      [] name = "ISO-8859-1" -> "latin-1"
      [] OTHER               -> "unknown"

Repertoire(codec) ==
    CASE codec = "ascii"   -> {"ascii"}
      [] codec = "latin-1" -> {"ascii", "latin1"}
      [] codec = "utf-8"   -> {"ascii", "latin1", "bmp"}
      [] OTHER             -> {}

\* text.encode(encoding): "ok" or the exception raised
Encode(text, encoding) ==
    IF text = NoneText THEN "AttributeError"
    ELSE IF CodecOf(encoding) = "unknown" THEN "LookupError"
    ELSE IF CharClass(text) \notin Repertoire(CodecOf(encoding)) THEN "UnicodeEncodeError"
    ELSE "ok"

(***************************************************************************)
(* ResponseEncoding.__parse_content_type: email.message.Message parses the *)
(* header; get_content_type() gives the lower-cased media type, or         *)
(* text/plain when it does not hold exactly one '/', and get_params()      *)
(* gives every segment as a (key, value) pair, the first one included.     *)
(***************************************************************************)
\* A parameter value: a str (q is the quoting left around v), or the
\* 3-tuple get_params() returns for an RFC 2231 extended parameter (name*).
StrVal(q, v) == [tuple |-> FALSE, q |-> q, v |-> v]
TupleVal == [tuple |-> TRUE, q |-> "none", v |-> ""]

IsStar(name) == name = "charset*"
BaseName(name) == IF name = "charset*" THEN "charset" ELSE name

\* email.utils.unquote: strips one pair of double quotes or angle brackets
Unquote(q, v) == IF q \in {"dq", "angle"} THEN StrVal("none", v) ELSE StrVal(q, v)

\* Message.get_content_type()
ContentTypeOf(segs) ==
    LET first == segs[1]
        slashes == SlashCount(first.name) + (IF first.eq THEN SlashCount(first.v) ELSE 0)
    IN  IF slashes # 1 THEN "text/plain"
        ELSE IF first.eq THEN Lower(first.name) \o "=" \o Render(first.q, first.v)
        ELSE Lower(first.name)

\* the key of the i-th segment in get_params(): lower-cased when the segment
\* has an '=', and without its '*' when it is an extended parameter
ParamKey(segs, i) ==
    LET s == segs[i]
    IN  IF i > 1 /\ IsStar(s.name) THEN BaseName(s.name)
        ELSE IF s.eq THEN Lower(s.name)
        ELSE s.name

ParamValue(segs, i) ==
    LET s == segs[i]
    IN  IF i > 1 /\ IsStar(s.name) THEN TupleVal
        ELSE IF s.eq THEN Unquote(s.q, s.v)
        ELSE StrVal("none", "")

\* dict(msg.get_params()): the last pair of a key wins, and decode_params
\* puts the extended parameters after all the others
ParamsDict(segs) ==
    LET idx == 1..Len(segs)
        keys == {ParamKey(segs, i) : i \in idx}
        ext(k) == {i \in idx : i > 1 /\ IsStar(segs[i].name) /\ ParamKey(segs, i) = k}
        last(k) == CHOOSE i \in idx : /\ ParamKey(segs, i) = k
                                      /\ \A j \in idx : ParamKey(segs, j) = k => j <= i
    IN  [k \in keys |-> IF ext(k) # {} THEN TupleVal ELSE ParamValue(segs, last(k))]

\* params.pop('content-type', None)
PopContentType(params) == [k \in DOMAIN params \ {"content-type"} |-> params[k]]

parse_content_type(header_value) ==
    [content_type |-> ContentTypeOf(header_value.segs),
     params |-> PopContentType(ParamsDict(header_value.segs))]

(***************************************************************************)
(* ResponseEncoding.get_value                                              *)
(***************************************************************************)
\* the content types with text/css left out
ISO_8859_1_WithoutCss == {"text/plain", "text/html", "text/javascript"}

DEFAULT_ENCODING == "utf-8"
ISO_8859_1_CONTENT_TYPES == {"text/plain", "text/html", "text/css", "text/javascript"}

\* the exceptions the except clause of get_value catches
CaughtExceptions == {"ValueError", "LookupError", "UnicodeEncodeError"}

\* An outcome: the value returned, or the exception that left the call;
\* parsed and tested record whether the header was parsed and whether
\* text.encode was attempted.
Returned(value, parsed, tested) ==
    [value |-> value, raised |-> "none", parsed |-> parsed, tested |-> tested]
Raised(exc, parsed, tested) ==
    [value |-> "", raised |-> exc, parsed |-> parsed, tested |-> tested]

\* StripQuotes stripping double quotes only
StripDoubleQuotesOnly(val) ==
    IF val.tuple THEN "AttributeError"
    ELSE IF val.q = "dq" THEN val.v
    ELSE Render(val.q, val.v)

\* params["charset"].strip("'\""): a tuple has no strip
StripQuotes(val) ==
    IF val.tuple THEN "AttributeError"
    ELSE IF val.q \in {"sq", "dq"} THEN val.v
    ELSE Render(val.q, val.v)

\* the chosen encoding returned without the test on the text
ValidateEncodingUntested(encoding, text) ==
    IF encoding = "" THEN Returned(DEFAULT_ENCODING, TRUE, FALSE)
    ELSE Returned(encoding, TRUE, FALSE)

\* lines 74-76: validate the chosen encoding on the text and return it
ValidateEncoding(encoding, text) ==
    IF encoding = "" THEN Returned(DEFAULT_ENCODING, TRUE, FALSE)
    ELSE LET e == Encode(text, encoding)
         IN  IF e = "ok" THEN Returned(encoding, TRUE, TRUE)
             ELSE IF e \in CaughtExceptions THEN Returned(DEFAULT_ENCODING, TRUE, TRUE)
             ELSE Raised(e, TRUE, TRUE)

get_value(content_type, text) ==
    IF ~Truthy(content_type) THEN Returned(DEFAULT_ENCODING, FALSE, FALSE)
    ELSE LET p == parse_content_type(content_type)
         IN  IF "charset" \in DOMAIN p.params
             THEN IF p.params["charset"].tuple
                  THEN Raised(StripQuotes(p.params["charset"]), TRUE, FALSE)
                  ELSE ValidateEncoding(StripQuotes(p.params["charset"]), text)
             ELSE IF p.content_type \in ISO_8859_1_CONTENT_TYPES
                  THEN ValidateEncoding("ISO-8859-1", text)
             ELSE IF p.content_type = "application/json"
                  THEN ValidateEncoding(DEFAULT_ENCODING, text)
             ELSE Returned(DEFAULT_ENCODING, TRUE, FALSE)

(***************************************************************************)
(* Header mappings.  A dict is a function from its keys to its values.     *)
(***************************************************************************)
EmptyDict == [k \in {} |-> ""]

\* dict.update: the keys of e are set, over the values d had for them
Update(d, e) == [k \in DOMAIN d \cup DOMAIN e |-> IF k \in DOMAIN e THEN e[k] ELSE d[k]]

\* the mappings with at most n keys, keys from K and values from V
DictsUpTo(K, V, n) == UNION {[ks -> V] : ks \in {x \in SUBSET K : Cardinality(x) <= n}}

CallerKeys == {"User-Agent", "user-agent", "Referer", "referer", "X-Custom"}
CallerValues == {"X", "Y"}
CallerMappings == DictsUpTo(CallerKeys, CallerValues, MaxCallerHeaders)

Urls == {"https://example.com/a", "https://shop.test/b"}

\* tldextract's domain of a url of the model
WebsiteName(url) == IF url = "https://example.com/a" THEN "example" ELSE "shop"

\* generate_convincing_referer(url): a Google search for the url's domain
generate_convincing_referer(url) == "https://www.google.com/search?q=" \o WebsiteName(url)

\* generate_headers(browser_mode=False): a browser's header set, drawn at
\* random by the generator; these are the draws of the model
GeneratedHeaders ==
    { [k \in {"User-Agent", "Accept"} |->
          IF k = "User-Agent" THEN "Mozilla/5.0 Chrome" ELSE "*/*"],
      [k \in {"User-Agent", "Accept", "Accept-Language"} |->
          IF k = "User-Agent" THEN "Mozilla/5.0 Firefox"
          ELSE IF k = "Accept" THEN "text/html" ELSE "en-US"] }

\* dict.get('User-Agent')
NoneHeader == "<None>"
GetUserAgent(gen) == IF "User-Agent" \in DOMAIN gen THEN gen["User-Agent"] ELSE NoneHeader

(***************************************************************************)
(* StaticEngine._headers_job                                               *)
(***************************************************************************)
\* headers_keys with the keys taken as they are written
headers_keys_as_written(headers) == DOMAIN headers

\* set(map(str.lower, headers.keys()))
headers_keys(headers) == {Lower(k) : k \in DOMAIN headers}

\* the generated headers, all of them
AllExtraHeaders(extra_headers, keys) == extra_headers

\* {key: value for key, value in extra_headers.items() if key.lower() not in headers_keys}
FilterExtraHeaders(extra_headers, keys) ==
    [k \in {x \in DOMAIN extra_headers : Lower(x) \notin keys} |-> extra_headers[k]]

\* the stealth branch, lines 48-53
StealthHeaders(headers, keys, gen, url) ==
    LET merged == Update(headers, FilterExtraHeaders(gen, keys))
    IN  IF "referer" \notin keys
        THEN Update(merged, [k \in {"referer"} |-> generate_convincing_referer(url)])
        ELSE merged

\* the other branch with every generated header added
PlainHeadersWithAll(headers, keys, gen) ==
    IF "user-agent" \notin keys THEN Update(headers, gen) ELSE headers

\* the branch without stealth, lines 55-57
PlainHeaders(headers, keys, gen) ==
    IF "user-agent" \notin keys
    THEN Update(headers, [k \in {"User-Agent"} |-> GetUserAgent(gen)])
    ELSE headers

\* _headers_job(headers) on an engine with the given stealth flag and url:
\* the mapping returned, and whether it is the argument itself, updated in
\* place (`headers or {}` makes a new dict only for None and for {})
headers_job(stealth, url, none, headers, gen) ==
    LET inplace == ~none /\ headers # EmptyDict
        h == IF inplace THEN headers ELSE EmptyDict
        keys == headers_keys(h)
    IN  [result  |-> IF stealth THEN StealthHeaders(h, keys, gen, url)
                     ELSE PlainHeaders(h, keys, gen),
         inplace |-> inplace]

(***************************************************************************)
(* Specification of the header merge: a caller builds a headers mapping    *)
(* (or passes none) and makes requests with it; each request runs          *)
(* _make_request's  self._headers_job(kwargs.pop('headers', {})).          *)
(***************************************************************************)
InitHeaders ==
    /\ hdr_none \in BOOLEAN
    /\ hdr_caller \in (IF hdr_none THEN {EmptyDict} ELSE CallerMappings)
    /\ hdr_before = hdr_caller
    /\ hdr_sent = EmptyDict
    /\ hdr_url = "https://example.com/a"
    /\ hdr_stealth = FALSE
    /\ hdr_gen = EmptyDict
    /\ hdr_calls = 0

\* one request: the headers job of an engine for `url`
HeadersJobCall(stealth) ==
    /\ hdr_calls < MaxCalls
    /\ \E url \in Urls, gen \in GeneratedHeaders :
          LET r == headers_job(stealth, url, hdr_none, hdr_caller, gen)
          IN  /\ hdr_before' = hdr_caller
              /\ hdr_sent' = r.result
              /\ hdr_caller' = IF r.inplace THEN r.result ELSE hdr_caller
              /\ hdr_url' = url
              /\ hdr_gen' = gen
    /\ hdr_stealth' = stealth
    /\ hdr_calls' = hdr_calls + 1
    /\ UNCHANGED <<hdr_none, notHdrVars>>

StealthRequest == HeadersJobCall(TRUE)
PlainRequest == HeadersJobCall(FALSE)

NextHeaders == StealthRequest \/ PlainRequest

(***************************************************************************)
(* The transport's response (httpx.Response) and Response.  Of a response  *)
(* the model keeps the url, the status code, the text, the encoding and    *)
(* the history; httpx gives every redirect hop the hops before it as its   *)
(* own history.                                                            *)
(***************************************************************************)
NoneEncoding == "<None>"
TransportEncodings == {"utf-8", "ISO-8859-1", NoneEncoding}
RedirectCodes == {301, 302}
BodyTexts == {"test", "euro-sign"}

\* a response before its history is attached
Plain(url, status, encoding, text) ==
    [url |-> url, status |-> status, encoding |-> encoding, text |-> text, history |-> << >>]

HopResponses == {Plain(u, c, "utf-8", "") : u \in Urls, c \in RedirectCodes}
FinalResponses == {Plain("https://example.com/a", 200, e, t) :
                      e \in TransportEncodings, t \in BodyTexts}

\* the k-th response of a redirect chain, with the hops before it as history
RECURSIVE WithHistory(_, _)
WithHistory(chain, k) ==
    [chain[k] EXCEPT !.history = [i \in 1..(k - 1) |-> WithHistory(chain, i)]]

\* what the transport can return: a final response after up to MaxRedirects hops
TransportResponses ==
    {WithHistory(Append(hops, final), Len(hops) + 1) :
        hops \in SeqsUpTo(HopResponses, MaxRedirects), final \in FinalResponses}

\* A Python value: its type and its text
Py(type, val) == [type |-> type, val |-> val]
PyNone == Py("NoneType", "None")
PyTrue == Py("bool", "True")
PyFalse == Py("bool", "False")

\* bool(value)
PyTruthy(v) == v.val \notin {"None", "False", "", "0", "[]", "{}"}

\* hash(value) raises TypeError for a dict and for a list
PyHashable(v) == v.type \notin {"dict", "list"}

\* BaseFetcher's class attributes, lines 109-115 of custom.py
BaseFetcherDefaults ==
    [k \in {"huge_tree", "auto_match", "storage", "keep_cdata", "storage_args",
            "keep_comments", "automatch_domain"} |->
        CASE k = "huge_tree"        -> PyTrue
          [] k = "storage"          -> Py("type", "SQLiteStorageSystem")
          [] k = "storage_args"     -> PyNone
          [] k = "automatch_domain" -> PyNone
          [] OTHER                  -> PyFalse]

\* _generate_parser_arguments with the test of the type left out: the
\* domain is added whenever it is truthy
generate_parser_arguments_any_type(attrs) ==
    LET parser_arguments ==
            [k \in {"huge_tree", "keep_comments", "keep_cdata", "auto_match",
                    "storage", "storage_args"} |-> attrs[k]]
    IN  IF PyTruthy(attrs["automatch_domain"])
        THEN Update(parser_arguments, [k \in {"automatch_domain"} |-> attrs["automatch_domain"]])
        ELSE parser_arguments

\* BaseFetcher._generate_parser_arguments on a class with these attributes
generate_parser_arguments(attrs) ==
    LET parser_arguments ==
            [k \in {"huge_tree", "keep_comments", "keep_cdata", "auto_match",
                    "storage", "storage_args"} |-> attrs[k]]
    IN  IF PyTruthy(attrs["automatch_domain"]) /\ attrs["automatch_domain"].type = "str"
        THEN Update(parser_arguments, [k \in {"automatch_domain"} |-> attrs["automatch_domain"]])
        ELSE parser_arguments

DefaultParserArguments == generate_parser_arguments(BaseFetcherDefaults)

AdaptorArguments ==
    {DefaultParserArguments,
     Update(DefaultParserArguments, [k \in {"automatch_domain"} |-> Py("str", "example.org")]),
     Update(DefaultParserArguments, [k \in {"keep_comments"} |-> PyTrue])}

\* a str holding a bare word: a header value of one segment
Word(w) == Str(<<Seg(w, FALSE, "none", "")>>)

\* Response with the encoding of the transport handed on as it is
ResponseKeepingEncoding(url, text, status, encoding, history, adaptor_arguments) ==
    [url      |-> url,
     status   |-> status,
     history  |-> history,
     encoding |-> encoding,
     raised   |-> "none",
     adaptor_arguments |->
         [k \in DOMAIN adaptor_arguments \ {"automatch_domain"} |-> adaptor_arguments[k]]]

\* Response.__init__: the transport fields are kept, automatch_domain is
\* taken out of the adaptor arguments and replaces the url when it is set,
\* and the encoding handed to the parser is get_value(encoding, text);
\* raised is the exception that left the constructor, "none" without one
Response(url, text, status, encoding, history, adaptor_arguments) ==
    LET automatch_domain == IF "automatch_domain" \in DOMAIN adaptor_arguments
                            THEN adaptor_arguments["automatch_domain"] ELSE PyNone
        resolved == get_value(Word(encoding), text)
    IN  [url      |-> IF PyTruthy(automatch_domain) THEN automatch_domain.val ELSE url,
         status   |-> status,
         history  |-> history,
         encoding |-> resolved.value,
         raised   |-> resolved.raised,
         adaptor_arguments |->
             [k \in DOMAIN adaptor_arguments \ {"automatch_domain"} |-> adaptor_arguments[k]]]

(***************************************************************************)
(* StaticEngine._prepare_response                                          *)
(***************************************************************************)
RECURSIVE prepare_response(_, _)

\* the history list with the hops taken newest first
HistoryNewestFirst(response, adaptor_arguments) ==
    [i \in 1..Len(response.history) |->
        prepare_response(response.history[Len(response.history) + 1 - i], adaptor_arguments)]

\* [self._prepare_response(redirection) for redirection in response.history]
PreparedHistory(response, adaptor_arguments) ==
    [i \in 1..Len(response.history) |->
        prepare_response(response.history[i], adaptor_arguments)]

prepare_response(response, adaptor_arguments) ==
    Response(response.url,
             response.text,
             response.status,
             IF response.encoding = NoneEncoding THEN "utf-8" ELSE response.encoding,
             PreparedHistory(response, adaptor_arguments),
             adaptor_arguments)

(***************************************************************************)
(* Specification of the response normalization: the transport returns a    *)
(* response after some redirects and the engine prepares it.               *)
(***************************************************************************)
NoResponse ==
    [url |-> "", status |-> 0, history |-> << >>, encoding |-> "", raised |-> "pending",
     adaptor_arguments |-> EmptyDict]

InitResponse ==
    /\ rsp_in \in TransportResponses
    /\ rsp_args \in AdaptorArguments
    /\ rsp_out = NoResponse

\* return self._prepare_response(request), without redirects
PrepareDirectResponse ==
    /\ rsp_out = NoResponse
    /\ rsp_in.history = << >>
    /\ rsp_out' = prepare_response(rsp_in, rsp_args)
    /\ UNCHANGED <<rsp_in, rsp_args, notRspVars>>

\* return self._prepare_response(request), after redirects
PrepareRedirectedResponse ==
    /\ rsp_out = NoResponse
    /\ rsp_in.history # << >>
    /\ rsp_out' = prepare_response(rsp_in, rsp_args)
    /\ UNCHANGED <<rsp_in, rsp_args, notRspVars>>

NextResponse == PrepareDirectResponse \/ PrepareRedirectedResponse

(***************************************************************************)
(* Specification of the encoding resolver: one call of get_value on any    *)
(* content type and any sample text.                                       *)
(***************************************************************************)
NoCall == [value |-> "", raised |-> "pending", parsed |-> FALSE, tested |-> FALSE]

InitEncoding ==
    /\ enc_ct \in ContentTypes \cup {EmptyString}
    /\ enc_text \in TextValues
    /\ enc_res = NoCall

\* get_value(None, text) and get_value("", text)
GetValueNoContentType ==
    /\ enc_res = NoCall
    /\ ~Truthy(enc_ct)
    /\ enc_res' = get_value(enc_ct, enc_text)
    /\ UNCHANGED <<enc_ct, enc_text, notEncVars>>

\* get_value(content_type, text) for a header string
GetValueOfHeader ==
    /\ enc_res = NoCall
    /\ Truthy(enc_ct)
    /\ enc_res' = get_value(enc_ct, enc_text)
    /\ UNCHANGED <<enc_ct, enc_text, notEncVars>>

NextEncoding == GetValueNoContentType \/ GetValueOfHeader

(***************************************************************************)
(* The static request path: a Fetcher or AsyncFetcher entry point builds a *)
(* StaticEngine and calls its verb method, which runs _make_request or     *)
(* _async_make_request.                                                    *)
(***************************************************************************)
\* the verbs of the entry points
Verbs == {"get", "post", "put", "delete"}

NoneProxy == "<None>"

\* the scalar options a caller gives an entry point: the defaults of
\* Fetcher.get and a call that changes every one of them
RequestOptions ==
    { [url |-> "https://example.com/a", proxy |-> NoneProxy, stealthy_headers |-> TRUE,
       follow_redirects |-> TRUE, timeout |-> 10, retries |-> 3],
      [url |-> "https://shop.test/b", proxy |-> "http://localhost:8030",
       stealthy_headers |-> FALSE, follow_redirects |-> FALSE, timeout |-> 30, retries |-> 0] }

\* the headers keyword of a call: none, or a mapping
RequestHeaders ==
    { [none |-> TRUE, map |-> EmptyDict],
      [none |-> FALSE, map |-> [k \in {"User-Agent"} |-> "X"]] }

\* the signature of StaticEngine.__init__, line 13-14
EngineParameters ==
    <<"url", "proxy", "stealthy_headers", "follow_redirects", "timeout", "retries",
      "adaptor_arguments">>

\* Python's binding of a call's positional and keyword arguments to the
\* parameters of StaticEngine.__init__
Bind(positional, keywords) ==
    [p \in {EngineParameters[i] : i \in 1..Len(EngineParameters)} |->
        IF p \in DOMAIN keywords THEN keywords[p]
        ELSE positional[CHOOSE i \in 1..Len(positional) : EngineParameters[i] = p]]

\* StaticEngine.__init__, lines 26-35
StaticEngineInit(a) ==
    [url |-> a["url"],
     proxy |-> a["proxy"],
     stealth |-> a["stealthy_headers"],
     timeout |-> a["timeout"],
     follow_redirects |-> a["follow_redirects"],
     retries |-> a["retries"],
     adaptor_arguments |-> a["adaptor_arguments"]]

\* the engine of Fetcher.get/post/put/delete, lines 60-68: retries is the
\* sixth positional argument
FetcherEngine(o, adaptor_arguments) ==
    StaticEngineInit(Bind(<<o.url, o.proxy, o.stealthy_headers, o.follow_redirects,
                            o.timeout, o.retries>>,
                          [k \in {"adaptor_arguments"} |-> adaptor_arguments]))

\* the engine of AsyncFetcher.get/post/put/delete, lines 247-255: retries
\* is a keyword argument
AsyncFetcherEngine(o, adaptor_arguments) ==
    StaticEngineInit(Bind(<<o.url, o.proxy, o.stealthy_headers, o.follow_redirects, o.timeout>>,
                          [k \in {"retries", "adaptor_arguments"} |->
                              IF k = "retries" THEN o.retries ELSE adaptor_arguments]))

\* StaticEngine.get/post/delete/put: the method name handed to _make_request
EngineMethod == [get |-> "get", post |-> "post", delete |-> "delete", put |-> "put"]

\* the async methods with delete and put handing on each other's name
AsyncEngineMethodSwapped == [get |-> "get", post |-> "post", delete |-> "put", put |-> "delete"]

\* StaticEngine.async_get/async_post/async_delete/async_put
AsyncEngineMethod == [get |-> "get", post |-> "post", delete |-> "delete", put |-> "put"]

\* What the server or the network does with a request: a transport error,
\* or an answer with a status, a Content-Type (media type and charset, the
\* charset absent or given) and a body; `detected` is the encoding the
\* transport settles on for a body whose Content-Type names no charset
TransportErrors == {"ConnectError", "ReadTimeout"}

Answer(status, media, charset, text, detected) ==
    [kind |-> "response", status |-> status, media |-> media, charset |-> charset,
     text |-> text, detected |-> detected]

ServerAnswers ==
    {[kind |-> "error", error |-> e] : e \in TransportErrors}
    \cup {Answer(200, m, NoneEncoding, t, d) :
             m \in {"text/plain", "application/json"}, t \in BodyTexts,
             d \in {"utf-8", NoneEncoding}}
    \cup {Answer(200, "text/plain", "utf-8", t, "utf-8") : t \in BodyTexts}
    \cup {Answer(404, "text/html", NoneEncoding, "test", "utf-8")}

\* httpx.Response.encoding: the charset of the Content-Type when it names
\* one, else what the transport settles on
HttpxEncoding(answer) ==
    IF answer.charset # NoneEncoding THEN answer.charset ELSE answer.detected

\* the httpx.Response of an answer to a request for url
TransportResponse(url, answer) == Plain(url, answer.status, HttpxEncoding(answer), answer.text)

NoClientConfig == [kind |-> "none", proxy |-> NoneProxy, retries |-> 0]

\* the outcome with the transport's exception replaced by the engine's own
RequestResultWrapped(engine, answer) ==
    IF answer.kind = "error" THEN [raised |-> "RuntimeError", response |-> NoResponse]
    ELSE [raised |-> "none",
          response |-> prepare_response(TransportResponse(engine.url, answer),
                                        engine.adaptor_arguments)]

\* the outcome of the step after the client is closed, lines 86 and 92: the
\* transport's exception goes on to the caller; a response is prepared, and
\* an exception of Response's constructor goes on to the caller
RequestResult(engine, answer) ==
    IF answer.kind = "error" THEN [raised |-> answer.error, response |-> NoResponse]
    ELSE LET r == prepare_response(TransportResponse(engine.url, answer),
                                   engine.adaptor_arguments)
         IN  IF r.raised # "none" THEN [raised |-> r.raised, response |-> NoResponse]
             ELSE [raised |-> "none", response |-> r]

\* _make_request(method, **kwargs), lines 82-86: the client it opens, the
\* one call it makes on the client, and what it gives its caller
make_request(engine, method, env) ==
    LET headers == headers_job(engine.stealth, engine.url, env.headers.none,
                               env.headers.map, env.gen).result
    IN  [client |-> [kind |-> "Client", proxy |-> engine.proxy, retries |-> engine.retries],
         call   |-> [method |-> method, url |-> engine.url, headers |-> headers,
                     follow_redirects |-> engine.follow_redirects,
                     timeout |-> engine.timeout],
         result |-> RequestResult(engine, env.answer)]

\* _async_make_request(method, **kwargs), lines 88-92
async_make_request(engine, method, env) ==
    LET headers == headers_job(engine.stealth, engine.url, env.headers.none,
                               env.headers.map, env.gen).result
    IN  [client |-> [kind |-> "AsyncClient", proxy |-> engine.proxy, retries |-> engine.retries],
         call   |-> [method |-> method, url |-> engine.url, headers |-> headers,
                     follow_redirects |-> engine.follow_redirects,
                     timeout |-> engine.timeout],
         result |-> RequestResult(engine, env.answer)]

\* Fetcher.<verb>(url, ..., **kwargs) without custom_config
FetcherVerb(verb, o, env) ==
    make_request(FetcherEngine(o, DefaultParserArguments), EngineMethod[verb], env)

\* AsyncFetcher.<verb>(url, ..., **kwargs) without custom_config
AsyncFetcherVerb(verb, o, env) ==
    async_make_request(AsyncFetcherEngine(o, DefaultParserArguments), AsyncEngineMethod[verb], env)

(***************************************************************************)
(* Specification of the static request path: requests one after the other, *)
(* each in the steps of _make_request / _async_make_request.               *)
(***************************************************************************)
NoRequest ==
    [mode |-> "none", verb |-> "none",
     options |-> [url |-> "", proxy |-> NoneProxy, stealthy_headers |-> FALSE,
                  follow_redirects |-> FALSE, timeout |-> 0, retries |-> 0],
     env |-> [headers |-> [none |-> TRUE, map |-> EmptyDict], gen |-> EmptyDict,
              answer |-> [kind |-> "error", error |-> "none"]]]

NoClient == [id |-> 0, config |-> NoClientConfig]
NoResult == [raised |-> "pending", response |-> NoResponse]

InitRequest ==
    /\ rq_in = NoRequest
    /\ rq_pc = "idle"
    /\ rq_client = NoClient
    /\ rq_sent = << >>
    /\ rq_result = NoResult
    /\ rq_count = 0
    /\ open_clients = {}
    /\ closed_clients = {}

\* what the request in progress does, by the path its entry point takes
Path ==
    IF rq_in.mode = "sync" THEN FetcherVerb(rq_in.verb, rq_in.options, rq_in.env)
    ELSE AsyncFetcherVerb(rq_in.verb, rq_in.options, rq_in.env)

\* a caller enters an entry point; the engine is built and its verb method
\* enters _make_request / _async_make_request
Enter(mode) ==
    /\ rq_pc \in {"idle", "returned", "raised"}
    /\ rq_count < MaxRequests
    /\ \E verb \in Verbs, o \in RequestOptions, h \in RequestHeaders,
          gen \in GeneratedHeaders, answer \in ServerAnswers :
          rq_in' = [mode |-> mode, verb |-> verb, options |-> o,
                    env |-> [headers |-> h, gen |-> gen, answer |-> answer]]
    /\ rq_pc' = "entered"
    /\ rq_client' = NoClient
    /\ rq_sent' = << >>
    /\ rq_result' = NoResult
    /\ rq_count' = rq_count + 1
    /\ UNCHANGED <<open_clients, closed_clients, notRqVars>>

FetcherEnter == Enter("sync")
AsyncFetcherEnter == Enter("async")

\* lines 83-84 / 89-90: the headers job, then `with httpx.Client(...) as client`
OpenClient ==
    /\ rq_pc = "entered"
    /\ LET id == Cardinality(open_clients \cup closed_clients) + 1
       IN  /\ rq_client' = [id |-> id, config |-> Path.client]
           /\ open_clients' = open_clients \cup {id}
    /\ rq_pc' = "open"
    /\ UNCHANGED <<rq_in, rq_sent, rq_result, rq_count, closed_clients, notRqVars>>

\* the verb call issued a second time when the transport raises
CallVerbAgainOnError ==
    /\ rq_pc = "open"
    /\ LET sent == [client |-> rq_client.id, call |-> Path.call]
       IN  rq_sent' = IF rq_in.env.answer.kind = "error"
                      THEN Append(Append(rq_sent, sent), sent)
                      ELSE Append(rq_sent, sent)
    /\ rq_pc' = "called"
    /\ UNCHANGED <<rq_in, rq_client, rq_result, rq_count, open_clients, closed_clients,
                   notRqVars>>

\* line 85 / 91: getattr(client, method)(url=..., headers=..., ...); the
\* transport answers or raises
CallVerb ==
    /\ rq_pc = "open"
    /\ rq_sent' = Append(rq_sent, [client |-> rq_client.id, call |-> Path.call])
    /\ rq_pc' = "called"
    /\ UNCHANGED <<rq_in, rq_client, rq_result, rq_count, open_clients, closed_clients,
                   notRqVars>>

\* the client closed only when the transport answered
CloseClientOnSuccessOnly ==
    /\ rq_pc = "called"
    /\ IF rq_in.env.answer.kind = "error"
       THEN UNCHANGED <<open_clients, closed_clients>>
       ELSE /\ open_clients' = open_clients \ {rq_client.id}
            /\ closed_clients' = closed_clients \cup {rq_client.id}
    /\ rq_pc' = "closed"
    /\ UNCHANGED <<rq_in, rq_client, rq_sent, rq_result, rq_count, notRqVars>>

\* the end of the with block, reached with a response and with an exception
CloseClient ==
    /\ rq_pc = "called"
    /\ open_clients' = open_clients \ {rq_client.id}
    /\ closed_clients' = closed_clients \cup {rq_client.id}
    /\ rq_pc' = "closed"
    /\ UNCHANGED <<rq_in, rq_client, rq_sent, rq_result, rq_count, notRqVars>>

\* line 86 / 92: return self._prepare_response(request)
ReturnResponse ==
    /\ rq_pc = "closed"
    /\ Path.result.raised = "none"
    /\ rq_result' = Path.result
    /\ rq_pc' = "returned"
    /\ UNCHANGED <<rq_in, rq_client, rq_sent, rq_count, open_clients, closed_clients,
                   notRqVars>>

\* the exception of the transport leaves the with block and the call
PropagateError ==
    /\ rq_pc = "closed"
    /\ Path.result.raised # "none"
    /\ rq_result' = Path.result
    /\ rq_pc' = "raised"
    /\ UNCHANGED <<rq_in, rq_client, rq_sent, rq_count, open_clients, closed_clients,
                   notRqVars>>

NextRequest ==
    \/ FetcherEnter
    \/ AsyncFetcherEnter
    \/ OpenClient
    \/ CallVerb
    \/ CloseClient
    \/ ReturnResponse
    \/ PropagateError

(***************************************************************************)
(* BaseFetcher.configure.  The class's parser attributes are a mapping     *)
(* from the parser keywords to their values.                               *)
(***************************************************************************)
\* parser_keywords, line 116
parser_keywords ==
    {"huge_tree", "auto_match", "storage", "keep_cdata", "storage_args",
     "keep_comments", "automatch_domain"}

\* the names hasattr(cls, name) finds on a fetcher class besides its parser
\* attributes, of the names of the model
OtherClassAttributes == {"parser_keywords", "display_config", "configure"}

\* str.strip() on the keys of the model
Strip(s) == IF s = " Keep_Comments " THEN "Keep_Comments" ELSE s

\* the loop of configure over kwargs[i..], lines 146-155: a key that is a
\* parser keyword is set at once; the first other key raises, and the keys
\* set before it stay set
RECURSIVE ConfigureLoop(_, _, _)
ConfigureLoop(attrs, kwargs, i) ==
    IF i > Len(kwargs) THEN [attrs |-> attrs, error |-> "none"]
    ELSE LET key == Lower(Strip(kwargs[i][1]))
             value == kwargs[i][2]
         IN  IF key \in parser_keywords \cup OtherClassAttributes
             THEN IF key \in parser_keywords
                  THEN ConfigureLoop([attrs EXCEPT ![key] = value], kwargs, i + 1)
                  ELSE [attrs |-> attrs, error |-> "AttributeError"]
             ELSE [attrs |-> attrs, error |-> "ValueError"]

\* configure without the test of lines 157-158: a call without keywords
\* passes
configure_without_keywords(attrs, kwargs) == ConfigureLoop(attrs, kwargs, 1)

\* configure(**kwargs), lines 140-158
configure(attrs, kwargs) ==
    LET r == ConfigureLoop(attrs, kwargs, 1)
    IN  IF r.error = "none" /\ kwargs = << >>
        THEN [attrs |-> r.attrs, error |-> "AttributeError"]
        ELSE r

\* the keyword arguments of a call: pairwise different keys, in some order
KwargsOf(keys, values, n) ==
    {kw \in SeqsUpTo(keys \X values, n) :
        \A i, j \in 1..Len(kw) : i # j => kw[i][1] # kw[j][1]}

ConfigureKeys == {"huge_tree", " Keep_Comments ", "keep_comments", "bogus", "display_config"}
ConfigureValues == {PyFalse, Py("str", "example.org")}
ConfigureCalls == KwargsOf(ConfigureKeys, ConfigureValues, MaxKwargs)

InitConfigure ==
    /\ parser_defaults = BaseFetcherDefaults
    /\ cfg_before = BaseFetcherDefaults
    /\ cfg_kwargs = << >>
    /\ cfg_error = "pending"

\* one call of configure on the class
Configure(calls) ==
    \E kwargs \in calls :
        LET r == configure(parser_defaults, kwargs)
        IN  /\ cfg_before' = parser_defaults
            /\ cfg_kwargs' = kwargs
            /\ parser_defaults' = r.attrs
            /\ cfg_error' = r.error

ConfigureCall == Configure(ConfigureCalls) /\ UNCHANGED notCfgVars

NextConfigure == ConfigureCall

(***************************************************************************)
(* BaseFetcher._generate_parser_arguments after configure calls that set   *)
(* the class's parser attributes, automatch_domain among them.             *)
(***************************************************************************)
\* the values configure is given for automatch_domain: it accepts any
AutomatchDomains ==
    {PyNone, Py("str", ""), Py("str", "example.org"), Py("int", "5"), Py("int", "0"), PyTrue}

ParserConfigureCalls ==
    {<< <<"automatch_domain", v>> >> : v \in AutomatchDomains}
        \cup { << <<"huge_tree", PyFalse>> >>,
               << <<"keep_comments", PyTrue>> >>,
               << <<"storage_args", Py("dict", "{'x': 1}")>> >> }

NoArguments == [called |-> FALSE, attrs |-> BaseFetcherDefaults, arguments |-> << >>]

InitParserArguments ==
    /\ InitConfigure
    /\ pa_res = NoArguments

\* cls.configure(key=value)
ConfigureParser == Configure(ParserConfigureCalls) /\ UNCHANGED notCfgVars

\* cls._generate_parser_arguments(), lines 160-178
GenerateParserArguments ==
    /\ pa_res' = [called |-> TRUE, attrs |-> parser_defaults,
                  arguments |-> generate_parser_arguments(parser_defaults)]
    /\ UNCHANGED notPaVars

NextParserArguments == ConfigureParser \/ GenerateParserArguments

(***************************************************************************)
(* The fetcher classes.  configure is a classmethod: setattr(cls, key,     *)
(* value) writes the attribute of the class it is called on, and reading   *)
(* cls.key finds the attribute of the first class of cls's bases that has  *)
(* one of its own.                                                         *)
(***************************************************************************)
FetcherClasses ==
    {"BaseFetcher", "Fetcher", "AsyncFetcher", "StealthyFetcher", "PlayWrightFetcher",
     "CustomFetcher"}

\* the base of a class: AsyncFetcher(Fetcher), every other one (BaseFetcher)
BaseOf(c) == IF c = "AsyncFetcher" THEN "Fetcher" ELSE "BaseFetcher"

\* getattr(cls, key) for a parser keyword
RECURSIVE ClassAttribute(_, _, _)
ClassAttribute(own, c, key) ==
    IF key \in DOMAIN own[c] \/ c = "BaseFetcher" THEN own[c][key]
    ELSE ClassAttribute(own, BaseOf(c), key)

\* the parser attributes a class reads
ClassAttributes(own, c) == [k \in parser_keywords |-> ClassAttribute(own, c, k)]

\* display_config(), lines 128-138
display_config(attrs) ==
    [k \in {"huge_tree", "keep_comments", "keep_cdata", "auto_match", "storage",
            "storage_args", "automatch_domain"} |-> attrs[k]]

\* the keys the loop of configure assigns, from kwargs[i] on
RECURSIVE AssignedKeys(_, _)
AssignedKeys(kwargs, i) ==
    IF i > Len(kwargs) THEN {}
    ELSE LET key == Lower(Strip(kwargs[i][1]))
         IN  IF key \in parser_keywords THEN {key} \cup AssignedKeys(kwargs, i + 1) ELSE {}

\* cls.configure(**kwargs): the classes' own attributes after the call, and
\* the exception
ConfigureOn(own, c, kwargs) ==
    LET r == configure(ClassAttributes(own, c), kwargs)
        assigned == AssignedKeys(kwargs, 1)
    IN  [own |-> [own EXCEPT ![c] = [k \in DOMAIN own[c] \cup assigned |->
                                        IF k \in assigned THEN r.attrs[k] ELSE own[c][k]]],
         error |-> r.error]

\* the configure calls made on the classes
ClassConfigureCalls ==
    { << >>,
      << <<"huge_tree", PyFalse>> >>,
      << <<"huge_tree", PyTrue>> >>,
      << <<"bogus", PyFalse>> >> }

NoClassCall == [cls |-> "none", kwargs |-> << >>, error |-> "pending"]

InitClasses ==
    /\ cls_own = [c \in FetcherClasses |->
                    IF c = "BaseFetcher" THEN BaseFetcherDefaults ELSE EmptyDict]
    /\ cls_call = NoClassCall

ConfigureClass(c) ==
    \E kwargs \in ClassConfigureCalls :
        LET r == ConfigureOn(cls_own, c, kwargs)
        IN  /\ cls_own' = r.own
            /\ cls_call' = [cls |-> c, kwargs |-> kwargs, error |-> r.error]
            /\ UNCHANGED notClsVars

\* BaseFetcher.configure(**kwargs)
BaseFetcherConfigure == ConfigureClass("BaseFetcher")

\* configure(**kwargs) called on a subclass
SubclassConfigure == \E c \in FetcherClasses \ {"BaseFetcher"} : ConfigureClass(c)

NextClasses == BaseFetcherConfigure \/ SubclassConfigure

(***************************************************************************)
(* The fetcher facades (fetchers.py).  Every entry point treats its        *)
(* custom_config the same way, merges it over the class's parser           *)
(* arguments, builds its engine and calls it.                              *)
(***************************************************************************)
\* A custom_config argument: its type, its text and, for a dict, its items
Config(type, val, items) == [type |-> type, val |-> val, items |-> items]

NoConfig == Config("NoneType", "None", EmptyDict)
EmptyDictConfig == Config("dict", "{}", EmptyDict)

MappingConfigs ==
    {EmptyDictConfig,
     Config("dict", "{'keep_comments': True}", [k \in {"keep_comments"} |-> PyTrue]),
     Config("dict", "{'storage_args': {'x': 1}}",
            [k \in {"storage_args"} |-> Py("dict", "{'x': 1}")])}

NonMappingConfigs ==
    {Config("str", "", EmptyDict), Config("str", "abc", EmptyDict),
     Config("int", "0", EmptyDict), Config("int", "5", EmptyDict),
     Config("list", "[]", EmptyDict), Config("list", "['x']", EmptyDict)}

CustomConfigs == {NoConfig} \cup MappingConfigs \cup NonMappingConfigs

\* bool(custom_config)
ConfigTruthy(c) == IF c.type = "dict" THEN c.items # EmptyDict ELSE PyTruthy(Py(c.type, c.val))

\* the ** of a dict display takes a mapping
IsMapping(c) == c.type = "dict"

\* lines 50-55 of every entry point: a falsy custom_config becomes {}; for
\* any other value that is no dict a ValueError is built and not raised, so
\* the value goes on as it is
NormalizeCustomConfig(c) ==
    [error |-> "none", config |-> IF ~ConfigTruthy(c) THEN EmptyDictConfig ELSE c]

\* the merge with the class's values over those of custom_config
MergeArgumentsDefaultsWin(parser_arguments, c) ==
    IF IsMapping(c)
    THEN [error |-> "none", args |-> Update(c.items, parser_arguments)]
    ELSE [error |-> "TypeError", args |-> EmptyDict]

\* {**cls._generate_parser_arguments(), **custom_config}: TypeError when
\* custom_config is not a mapping
MergeArguments(parser_arguments, c) ==
    IF IsMapping(c)
    THEN [error |-> "none", args |-> Update(parser_arguments, c.items)]
    ELSE [error |-> "TypeError", args |-> EmptyDict]

\* lines 50-59: the adaptor arguments of a call, or the exception
AdaptorArgumentsOf(parser_arguments, custom_config) ==
    LET n == NormalizeCustomConfig(custom_config)
    IN  IF n.error # "none" THEN [error |-> n.error, args |-> EmptyDict]
        ELSE MergeArguments(parser_arguments, n.config)

\* lru_cache(2, typed=True) on StaticEngine
LruMaxSize == 2

\* the scalar options of a call that gives only the url: the defaults of
\* the entry points of Fetcher and AsyncFetcher
DefaultOptions(url) ==
    [url |-> url, proxy |-> NoneProxy, stealthy_headers |-> TRUE, follow_redirects |-> TRUE,
     timeout |-> 10, retries |-> 3]

\* the cache key of a call of StaticEngine: its positional arguments and
\* its keyword arguments, as the call wrote them
EngineKey(positional, keywords) == [args |-> positional, kwds |-> keywords]

\* StaticEngine(url, proxy, stealthy_headers, follow_redirects, timeout,
\* retries, adaptor_arguments=...) of Fetcher, lines 60-68
FetcherEngineKey(o, adaptor_arguments) ==
    EngineKey(<<o.url, o.proxy, o.stealthy_headers, o.follow_redirects, o.timeout, o.retries>>,
              [k \in {"adaptor_arguments"} |-> adaptor_arguments])

\* StaticEngine(url, proxy, stealthy_headers, follow_redirects, timeout,
\* retries=retries, adaptor_arguments=...) of AsyncFetcher, lines 247-255
AsyncFetcherEngineKey(o, adaptor_arguments) ==
    EngineKey(<<o.url, o.proxy, o.stealthy_headers, o.follow_redirects, o.timeout>>,
              [k \in {"retries", "adaptor_arguments"} |->
                  IF k = "retries" THEN o.retries ELSE adaptor_arguments])

\* hashing the key raises TypeError when an argument value is unhashable
KeyHashable(key) ==
    \A k \in DOMAIN key.kwds["adaptor_arguments"] :
        PyHashable(key.kwds["adaptor_arguments"][k])

InCache(cache, key) == \E i \in 1..Len(cache) : cache[i].key = key

\* the engine the cache holds for the key
CachedEngine(cache, key) == cache[CHOOSE i \in 1..Len(cache) : cache[i].key = key].engine

Without(cache, key) == SelectSeq(cache, LAMBDA e : e.key # key)

\* the cache with a hit leaving the entry where it is
LruAfterHitInPlace(cache, key, engine) ==
    IF InCache(cache, key) THEN cache
    ELSE IF Len(cache) >= LruMaxSize THEN Append(Tail(cache), [key |-> key, engine |-> engine])
    ELSE Append(cache, [key |-> key, engine |-> engine])

\* the cache after a call with `key`: a hit moves the entry to the most
\* recent place, a miss adds the new engine and drops the least recent
\* entry when the cache is full
LruAfter(cache, key, engine) ==
    IF InCache(cache, key)
    THEN Append(Without(cache, key), [key |-> key, engine |-> CachedEngine(cache, key)])
    ELSE IF Len(cache) >= LruMaxSize THEN Append(Tail(cache), [key |-> key, engine |-> engine])
    ELSE Append(cache, [key |-> key, engine |-> engine])

\* what the transport does with a dispatched request
TransportOutcomes == {"response", "ConnectError"}

NoEngine ==
    [url |-> "", proxy |-> NoneProxy, stealth |-> FALSE, timeout |-> 0,
     follow_redirects |-> FALSE, retries |-> 0, adaptor_arguments |-> EmptyDict]

\* the end of a call: the exception, whether a constructor ran, whether a
\* request was dispatched, the adaptor arguments handed to the engine, the
\* static engine used and the cache
CallEnd(error, built, dispatched, args, engine, cache) ==
    [error |-> error, built |-> built, dispatched |-> dispatched, args |-> args,
     engine |-> engine, cache |-> cache]

\* Fetcher.get/post/put/delete (mode "sync") and AsyncFetcher.get/post/put/
\* delete (mode "async") for a url, with the other options at their defaults
static_fetch(mode, url, custom_config, outcome, cache) ==
    LET a == AdaptorArgumentsOf(generate_parser_arguments(parser_defaults), custom_config)
        key == IF mode = "sync" THEN FetcherEngineKey(DefaultOptions(url), a.args)
               ELSE AsyncFetcherEngineKey(DefaultOptions(url), a.args)
    IN  IF a.error # "none" THEN CallEnd(a.error, FALSE, FALSE, EmptyDict, NoEngine, cache)
        ELSE IF ~KeyHashable(key)
             THEN CallEnd("TypeError", FALSE, FALSE, a.args, NoEngine, cache)
        ELSE LET engine == IF InCache(cache, key) THEN CachedEngine(cache, key)
                           ELSE StaticEngineInit(Bind(key.args, key.kwds))
             IN  CallEnd(IF outcome = "response" THEN "none" ELSE outcome,
                         ~InCache(cache, key), TRUE, a.args, engine,
                         LruAfter(cache, key, engine))

\* StealthyFetcher and PlayWrightFetcher fetch/async_fetch: the arguments of
\* the engine's constructor are evaluated, the engine is built and fetches
browser_fetch(url, custom_config, outcome, cache) ==
    LET a == AdaptorArgumentsOf(generate_parser_arguments(parser_defaults), custom_config)
    IN  IF a.error # "none" THEN CallEnd(a.error, FALSE, FALSE, EmptyDict, NoEngine, cache)
        ELSE CallEnd(IF outcome = "response" THEN "none" ELSE outcome,
                     TRUE, TRUE, a.args, NoEngine, cache)

(***************************************************************************)
(* Specification of the facades: any sequence of calls of the entry points.*)
(***************************************************************************)
FetchModes == {"fetch", "async_fetch"}

\* the url of the calls of this specification
FacadeUrls == {"https://example.com/a"}

InitFacade ==
    /\ fc_entry = "none"
    /\ fc_url = ""
    /\ fc_config = NoConfig
    /\ fc_error = "none"
    /\ fc_built = FALSE
    /\ fc_dispatched = FALSE
    /\ fc_args = EmptyDict
    /\ fc_engine = NoEngine
    /\ engine_cache = << >>

Finish(entry, url, custom_config, end) ==
    /\ fc_entry' = entry
    /\ fc_url' = url
    /\ fc_config' = custom_config
    /\ fc_error' = end.error
    /\ fc_built' = end.built
    /\ fc_dispatched' = end.dispatched
    /\ fc_args' = end.args
    /\ fc_engine' = end.engine
    /\ engine_cache' = end.cache
    /\ UNCHANGED notFcVars

FetcherRequest ==
    \E verb \in Verbs, url \in FacadeUrls, c \in CustomConfigs, o \in TransportOutcomes :
        Finish("Fetcher." \o verb, url, c, static_fetch("sync", url, c, o, engine_cache))

AsyncFetcherRequest ==
    \E verb \in Verbs, url \in FacadeUrls, c \in CustomConfigs, o \in TransportOutcomes :
        Finish("AsyncFetcher." \o verb, url, c, static_fetch("async", url, c, o, engine_cache))

StealthyFetcherFetch ==
    \E mode \in FetchModes, url \in FacadeUrls, c \in CustomConfigs, o \in TransportOutcomes :
        Finish("StealthyFetcher." \o mode, url, c, browser_fetch(url, c, o, engine_cache))

PlayWrightFetcherFetch ==
    \E mode \in FetchModes, url \in FacadeUrls, c \in CustomConfigs, o \in TransportOutcomes :
        Finish("PlayWrightFetcher." \o mode, url, c, browser_fetch(url, c, o, engine_cache))

NextFacade ==
    \/ FetcherRequest
    \/ AsyncFetcherRequest
    \/ StealthyFetcherFetch
    \/ PlayWrightFetcherFetch

(***************************************************************************)
(* Specification of the engine cache: configure calls on the class and     *)
(* Fetcher.get / AsyncFetcher.get calls, in any order; every request is    *)
(* answered.                                                               *)
(***************************************************************************)
CacheConfigs == {NoConfig} \cup (MappingConfigs \ {EmptyDictConfig})

CacheConfigureCalls ==
    { << <<"keep_comments", PyTrue>> >>,
      << <<"automatch_domain", Py("str", "example.org")>> >>,
      << <<"automatch_domain", Py("int", "5")>> >> }

FetcherGet ==
    \E url \in Urls, c \in CacheConfigs :
        Finish("Fetcher.get", url, c, static_fetch("sync", url, c, "response", engine_cache))

AsyncFetcherGet ==
    \E url \in Urls, c \in CacheConfigs :
        Finish("AsyncFetcher.get", url, c,
               static_fetch("async", url, c, "response", engine_cache))

FetcherConfigure == Configure(CacheConfigureCalls) /\ UNCHANGED notCfgVars

NextCache == FetcherGet \/ AsyncFetcherGet \/ FetcherConfigure

(***************************************************************************)
(* check_if_engine_usable and CustomFetcher.fetch.  An engine class is     *)
(* described by what its attribute `fetch` is: missing, an attribute that  *)
(* is not callable, or a function, classmethod or staticmethod defined     *)
(* with some number of parameters (self and cls counted); and by the       *)
(* keywords its constructor takes: none, adaptor_arguments only, or any.   *)
(***************************************************************************)
EngineClass(fetch, defined, init) == [fetch |-> fetch, defined |-> defined, init |-> init]

ConstructorKinds == {"no_keywords", "adaptor_arguments", "any_keywords"}

EngineClasses ==
    {EngineClass(f, 0, i) : f \in {"missing", "not_callable"}, i \in ConstructorKinds}
    \cup {EngineClass(f, n, i) :
             f \in {"function", "staticmethod"}, n \in 0..MaxFetchParameters,
             i \in ConstructorKinds}
    \cup {EngineClass("classmethod", n, i) :
             n \in 1..MaxFetchParameters, i \in ConstructorKinds}

\* the **kwargs handed on to the engine's constructor
EngineKwargs == {{}, {"headless"}}

\* engine(adaptor_arguments=..., **kwargs) is a call the constructor takes
ConstructorTakes(engine, kwargs) ==
    \/ engine.init = "any_keywords"
    \/ (engine.init = "adaptor_arguments" /\ kwargs = {})

\* hasattr(engine, 'fetch')
HasFetch(engine) == engine.fetch # "missing"

\* callable(getattr(engine, 'fetch'))
FetchCallable(engine) == engine.fetch \in {"function", "classmethod", "staticmethod"}

\* len(inspect.signature(getattr(engine, 'fetch')).parameters) on the
\* class: a function is unbound there and keeps its self, a classmethod is
\* bound to the class and loses its cls
SignatureParameters(engine) ==
    IF engine.fetch = "classmethod" THEN engine.defined - 1 ELSE engine.defined

\* the parameters left for the arguments of instance.fetch(...)
CallParameters(engine) ==
    IF engine.fetch = "staticmethod" THEN engine.defined ELSE engine.defined - 1

\* check_if_engine_usable(engine), lines 258-281
check_if_engine_usable(engine) ==
    IF HasFetch(engine)
    THEN IF FetchCallable(engine)
         THEN IF SignatureParameters(engine) > 0 THEN "returned" ELSE "TypeError"
         ELSE "TypeError"
    ELSE "TypeError"

\* CustomFetcher.fetch(url, browser_engine), lines 790-794: the check, the
\* constructor with adaptor_arguments, then engine.fetch(url)
custom_fetch(url, engine, kwargs) ==
    LET call == [entry |-> "CustomFetcher.fetch", url |-> url, kwargs |-> kwargs]
    IN  IF check_if_engine_usable(engine) # "returned"
        THEN [call |-> call, check |-> "TypeError", instantiated |-> FALSE,
              fetched |-> FALSE, error |-> "TypeError"]
        ELSE IF ~ConstructorTakes(engine, kwargs)
        THEN [call |-> call, check |-> "returned", instantiated |-> FALSE,
              fetched |-> FALSE, error |-> "TypeError"]
        ELSE IF CallParameters(engine) # 1
        THEN [call |-> call, check |-> "returned", instantiated |-> TRUE,
              fetched |-> FALSE, error |-> "TypeError"]
        ELSE [call |-> call, check |-> "returned", instantiated |-> TRUE,
              fetched |-> TRUE, error |-> "none"]

NoCheck ==
    [call |-> [entry |-> "none", url |-> "", kwargs |-> {}], check |-> "pending",
     instantiated |-> FALSE, fetched |-> FALSE, error |-> "none"]

InitEngineCheck ==
    /\ ce_engine \in EngineClasses
    /\ ce_res = NoCheck

\* check_if_engine_usable called on its own
CheckEngine ==
    /\ ce_res = NoCheck
    /\ ce_res' = [call |-> [entry |-> "check_if_engine_usable", url |-> "", kwargs |-> {}],
                  check |-> check_if_engine_usable(ce_engine), instantiated |-> FALSE,
                  fetched |-> FALSE,
                  error |-> IF check_if_engine_usable(ce_engine) = "returned"
                            THEN "none" ELSE "TypeError"]
    /\ UNCHANGED <<ce_engine, notCeVars>>

\* CustomFetcher.fetch(url, browser_engine)
CustomFetcherFetch ==
    /\ ce_res = NoCheck
    /\ \E url \in Urls, kwargs \in EngineKwargs :
          ce_res' = custom_fetch(url, ce_engine, kwargs)
    /\ UNCHANGED <<ce_engine, notCeVars>>

NextEngineCheck == CheckEngine \/ CustomFetcherFetch

(***************************************************************************)
(* check_type_validity.  Values and types are those of the model; the      *)
(* types are related as Python's are: bool is a subclass of int, and every *)
(* type is a subclass of object.                                           *)
(***************************************************************************)
TypeNames == {"int", "str", "NoneType", "object"}
Variables == {PyNone, Py("int", "5"), Py("str", "x"), PyTrue}
DefaultValues == {PyNone, Py("int", "0")}

\* valid_types: None, or a list of types
NoneTypes == [none |-> TRUE, list |-> << >>]
ValidTypes == {NoneTypes} \cup {[none |-> FALSE, list |-> l] : l \in SeqsUpTo(TypeNames, MaxValidTypes)}

\* isinstance(value, t)
IsInstance(value, t) ==
    \/ t = value.type
    \/ t = "object"
    \/ (value.type = "bool" /\ t = "int")

\* valid_types or []
NormalizeValidTypes(valid_types) == IF valid_types.none THEN << >> ELSE valid_types.list

InList(t, list) == \E i \in 1..Len(list) : list[i] = t

TvReturned(value) == [kind |-> "returned", value |-> value, exc |-> "none"]
TvRaised(exc) == [kind |-> "raised", value |-> PyNone, exc |-> exc]

\* check_type_validity with the failure always answered by the default
check_type_validity_lenient(variable, valid_types, default_value, critical) ==
    LET types == NormalizeValidTypes(valid_types)
    IN  IF variable = PyNone
        THEN IF InList("NoneType", types) THEN TvReturned(variable)
             ELSE TvReturned(default_value)
        ELSE IF types = << >> THEN TvReturned(variable)
        ELSE IF ~\E i \in 1..Len(types) : IsInstance(variable, types[i])
             THEN TvReturned(default_value)
        ELSE TvReturned(variable)

\* check_type_validity(variable, valid_types, default_value, critical), lines 296-335
check_type_validity(variable, valid_types, default_value, critical) ==
    LET types == NormalizeValidTypes(valid_types)
    IN  IF variable = PyNone
        THEN IF InList("NoneType", types) THEN TvReturned(variable)
             ELSE IF critical THEN TvRaised("TypeError")
             ELSE TvReturned(default_value)
        ELSE IF types = << >> THEN TvReturned(variable)
        ELSE IF ~\E i \in 1..Len(types) : IsInstance(variable, types[i])
             THEN IF critical THEN TvRaised("TypeError") ELSE TvReturned(default_value)
        ELSE TvReturned(variable)

NoTypeCheck == [kind |-> "pending", value |-> PyNone, exc |-> "none"]

InitTypeCheck ==
    /\ tv_in \in [variable : Variables, valid_types : ValidTypes,
                   default_value : DefaultValues, critical : BOOLEAN]
    /\ tv_res = NoTypeCheck

\* a call with critical=True
CheckTypeCritical ==
    /\ tv_res = NoTypeCheck
    /\ tv_in.critical
    /\ tv_res' = check_type_validity(tv_in.variable, tv_in.valid_types,
                                     tv_in.default_value, tv_in.critical)
    /\ UNCHANGED <<tv_in, notTvVars>>

\* a call with critical=False
CheckTypeLogged ==
    /\ tv_res = NoTypeCheck
    /\ ~tv_in.critical
    /\ tv_res' = check_type_validity(tv_in.variable, tv_in.valid_types,
                                     tv_in.default_value, tv_in.critical)
    /\ UNCHANGED <<tv_in, notTvVars>>

NextTypeCheck == CheckTypeCritical \/ CheckTypeLogged

(***************************************************************************)
(* Concurrent requests.  Threads run _make_request side by side on the     *)
(* engines the cache holds; a request's headers argument is absent, a      *)
(* mapping of its own, or a mapping object other requests are given too.   *)
(* _headers_job reads the keys of the mapping, then updates the mapping;   *)
(* the client copies the mapping when the verb call is made.               *)
(***************************************************************************)
Tasks == 1..MaxTasks

\* the engines in the cache: Fetcher.get(url) for the two urls of the model
CachedEngines ==
    [i \in 1..LruMaxSize |->
        FetcherEngine(DefaultOptions(IF i = 1 THEN "https://example.com/a"
                                     ELSE "https://shop.test/b"),
                      DefaultParserArguments)]

\* the headers argument of a request
HeaderArguments == {"none", "own", "shared"}

\* the mapping a caller built
CallerMapping == [k \in {"X-Custom"} |-> "X"]

\* how the transport answers a request
TaskAnswers ==
    {[kind |-> "error", error |-> "ConnectError"],
     Answer(200, "text/plain", NoneEncoding, "test", "utf-8")}

\* a request that has not started
NewTask(engine, arg, gen, answer) ==
    [engine |-> engine, arg |-> arg, gen |-> gen, answer |-> answer, pc |-> "start",
     object |-> "none", mine |-> EmptyDict, keys |-> {}, sent |-> EmptyDict,
     result |-> NoResult]

InitConcurrent ==
    /\ cc_engines = CachedEngines
    /\ cc_shared = CallerMapping
    /\ cc_task \in [Tasks -> {NewTask(e, a, g, r) : e \in 1..LruMaxSize, a \in HeaderArguments,
                                                    g \in GeneratedHeaders, r \in TaskAnswers}]

\* the contents of the mapping object a request works on
TaskMapping(t) == IF cc_task[t].object = "shared" THEN cc_shared ELSE cc_task[t].mine

\* lines 44-45: `headers or {}` keeps the argument when it is a non-empty
\* mapping, then the lower-cased keys are read
ReadHeaderKeys(t) ==
    /\ cc_task[t].pc = "start"
    /\ LET given == IF cc_task[t].arg = "shared" THEN cc_shared
                    ELSE IF cc_task[t].arg = "own" THEN CallerMapping ELSE EmptyDict
           object == IF cc_task[t].arg = "shared" /\ given # EmptyDict THEN "shared"
                     ELSE "private"
       IN  cc_task' = [cc_task EXCEPT ![t] =
                          [@ EXCEPT !.object = object, !.mine = given,
                                    !.keys = headers_keys(given), !.pc = "keys"]]
    /\ UNCHANGED <<cc_engines, cc_shared, notCcVars>>

\* lines 47-57: the mapping is updated with the keys that were read
UpdateHeaders(t) ==
    /\ cc_task[t].pc = "keys"
    /\ LET engine == cc_engines[cc_task[t].engine]
           merged == IF engine.stealth
                     THEN StealthHeaders(TaskMapping(t), cc_task[t].keys, cc_task[t].gen,
                                         engine.url)
                     ELSE PlainHeaders(TaskMapping(t), cc_task[t].keys, cc_task[t].gen)
       IN  IF cc_task[t].object = "shared"
           THEN /\ cc_shared' = merged
                /\ cc_task' = [cc_task EXCEPT ![t] = [@ EXCEPT !.pc = "merged"]]
           ELSE /\ cc_task' = [cc_task EXCEPT ![t] = [@ EXCEPT !.mine = merged, !.pc = "merged"]]
                /\ UNCHANGED cc_shared
    /\ UNCHANGED <<cc_engines, notCcVars>>

\* lines 84-85: the verb call on a new client, with the mapping as it is
SendRequest(t) ==
    /\ cc_task[t].pc = "merged"
    /\ cc_task' = [cc_task EXCEPT ![t] = [@ EXCEPT !.sent = TaskMapping(t), !.pc = "sent"]]
    /\ UNCHANGED <<cc_engines, cc_shared, notCcVars>>

\* line 86: the transport answered or raised; the Response is prepared
FinishRequest(t) ==
    /\ cc_task[t].pc = "sent"
    /\ cc_task' = [cc_task EXCEPT ![t] =
                      [@ EXCEPT !.result = RequestResult(cc_engines[cc_task[t].engine],
                                                         cc_task[t].answer),
                                !.pc = "done"]]
    /\ UNCHANGED <<cc_engines, cc_shared, notCcVars>>

ReadKeysStep == \E t \in Tasks : ReadHeaderKeys(t)
UpdateStep == \E t \in Tasks : UpdateHeaders(t)
SendStep == \E t \in Tasks : SendRequest(t)
FinishStep == \E t \in Tasks : FinishRequest(t)

NextConcurrent == ReadKeysStep \/ UpdateStep \/ SendStep \/ FinishStep

(***************************************************************************)
(* The specifications.  Each one runs one part of the program and leaves   *)
(* the variables of the other parts at rest.                               *)
(***************************************************************************)
EncodingAtRest ==
    /\ enc_ct = NoneValue
    /\ enc_text = NoneText
    /\ enc_res = NoCall

HeadersAtRest ==
    /\ hdr_none = TRUE
    /\ hdr_caller = EmptyDict
    /\ hdr_before = EmptyDict
    /\ hdr_sent = EmptyDict
    /\ hdr_url = "https://example.com/a"
    /\ hdr_stealth = FALSE
    /\ hdr_gen = EmptyDict
    /\ hdr_calls = 0

ResponseAtRest ==
    /\ rsp_in = Plain("https://example.com/a", 200, "utf-8", "")
    /\ rsp_args = EmptyDict
    /\ rsp_out = NoResponse

FacadeAtRest == InitFacade

ConfigureAtRest == InitConfigure

RequestAtRest == InitRequest

EngineCheckAtRest ==
    /\ ce_engine = EngineClass("missing", 0, "no_keywords")
    /\ ce_res = NoCheck

TypeCheckAtRest ==
    /\ tv_in = [variable |-> PyNone, valid_types |-> NoneTypes, default_value |-> PyNone,
                critical |-> FALSE]
    /\ tv_res = NoTypeCheck

ClassesAtRest == InitClasses

ConcurrentAtRest ==
    /\ cc_engines = CachedEngines
    /\ cc_shared = CallerMapping
    /\ cc_task = [t \in Tasks |->
                     [NewTask(1, "none", EmptyDict,
                              [kind |-> "error", error |-> "ConnectError"]) EXCEPT !.pc = "rest"]]

ParserArgumentsAtRest == pa_res = NoArguments

ChecksAtRest ==
    /\ EngineCheckAtRest /\ TypeCheckAtRest /\ ClassesAtRest /\ ConcurrentAtRest
    /\ ParserArgumentsAtRest

InitSpecEncoding ==
    InitEncoding /\ HeadersAtRest /\ ResponseAtRest /\ FacadeAtRest /\ ConfigureAtRest
    /\ RequestAtRest
    /\ ChecksAtRest
SpecEncoding == InitSpecEncoding /\ [][NextEncoding]_vars

InitSpecHeaders ==
    InitHeaders /\ EncodingAtRest /\ ResponseAtRest /\ FacadeAtRest /\ ConfigureAtRest
    /\ RequestAtRest
    /\ ChecksAtRest
SpecHeaders == InitSpecHeaders /\ [][NextHeaders]_vars

InitSpecResponse ==
    InitResponse /\ EncodingAtRest /\ HeadersAtRest /\ FacadeAtRest /\ ConfigureAtRest
    /\ RequestAtRest
    /\ ChecksAtRest
SpecResponse == InitSpecResponse /\ [][NextResponse]_vars

InitSpecConfigure ==
    InitConfigure /\ EncodingAtRest /\ HeadersAtRest /\ ResponseAtRest /\ FacadeAtRest
    /\ RequestAtRest
    /\ ChecksAtRest

InitSpecRequest ==
    InitRequest /\ EncodingAtRest /\ HeadersAtRest /\ ResponseAtRest /\ FacadeAtRest
    /\ ConfigureAtRest
    /\ ChecksAtRest
SpecRequest == InitSpecRequest /\ [][NextRequest]_vars

InitSpecCache ==
    InitFacade /\ InitConfigure /\ EncodingAtRest /\ HeadersAtRest /\ ResponseAtRest
    /\ RequestAtRest
    /\ ChecksAtRest
SpecCache == InitSpecCache /\ [][NextCache]_vars
SpecConfigure == InitSpecConfigure /\ [][NextConfigure]_vars

InitSpecEngineCheck ==
    InitEngineCheck /\ TypeCheckAtRest /\ ClassesAtRest /\ ConcurrentAtRest /\ EncodingAtRest /\ HeadersAtRest /\ ResponseAtRest
    /\ FacadeAtRest /\ ConfigureAtRest /\ RequestAtRest
    /\ ParserArgumentsAtRest
SpecEngineCheck == InitSpecEngineCheck /\ [][NextEngineCheck]_vars

InitSpecTypeCheck ==
    InitTypeCheck /\ EngineCheckAtRest /\ ClassesAtRest /\ ConcurrentAtRest /\ EncodingAtRest /\ HeadersAtRest /\ ResponseAtRest
    /\ FacadeAtRest /\ ConfigureAtRest /\ RequestAtRest
    /\ ParserArgumentsAtRest
SpecTypeCheck == InitSpecTypeCheck /\ [][NextTypeCheck]_vars

InitSpecClasses ==
    InitClasses /\ EngineCheckAtRest /\ TypeCheckAtRest /\ ConcurrentAtRest /\ EncodingAtRest
    /\ HeadersAtRest
    /\ ResponseAtRest /\ FacadeAtRest /\ ConfigureAtRest /\ RequestAtRest
    /\ ParserArgumentsAtRest
SpecClasses == InitSpecClasses /\ [][NextClasses]_vars

InitSpecConcurrent ==
    InitConcurrent /\ EngineCheckAtRest /\ TypeCheckAtRest /\ ClassesAtRest /\ EncodingAtRest
    /\ HeadersAtRest /\ ResponseAtRest /\ FacadeAtRest /\ ConfigureAtRest /\ RequestAtRest
    /\ ParserArgumentsAtRest
SpecConcurrent == InitSpecConcurrent /\ [][NextConcurrent]_vars

InitSpecParserArguments ==
    InitParserArguments /\ EngineCheckAtRest /\ TypeCheckAtRest /\ ClassesAtRest
    /\ ConcurrentAtRest /\ EncodingAtRest /\ HeadersAtRest /\ ResponseAtRest /\ FacadeAtRest
    /\ RequestAtRest
SpecParserArguments == InitSpecParserArguments /\ [][NextParserArguments]_vars

Init ==
    InitFacade /\ EncodingAtRest /\ HeadersAtRest /\ ResponseAtRest /\ ConfigureAtRest
    /\ RequestAtRest
    /\ ChecksAtRest
Next == NextFacade
Spec == Init /\ [][Next]_vars

(***************************************************************************)
(* Properties of the encoding resolver.                                    *)
(***************************************************************************)
EncCalled == enc_res # NoCall
EncIsText == enc_text # NoneText

\* A segment that is a charset parameter: charset=..., under any letter
\* case of the name, or the bare word charset
IsCharsetSeg(s) == IF s.eq THEN Lower(s.name) = "charset" ELSE s.name = "charset"

\* The header's charset parameter X: the value of its last charset segment
CharsetIdx(segs) == {i \in 1..Len(segs) : IsCharsetSeg(segs[i])}
LastCharsetIdx(segs) == CHOOSE i \in CharsetIdx(segs) : \A j \in CharsetIdx(segs) : j <= i
CharsetX(segs) == IF segs[LastCharsetIdx(segs)].eq THEN segs[LastCharsetIdx(segs)].v ELSE ""

\* The header holds an RFC 2231 extended parameter charset*=...
HasExtendedCharset(segs) == \E i \in 1..Len(segs) : segs[i].name = "charset*"

\* The header carries an explicit charset=X parameter
HasExplicitCharset(segs) ==
    /\ \E i \in CharsetIdx(segs) : segs[i].eq
    /\ ~HasExtendedCharset(segs)

\* X names a codec that encodes the text
Validated(x, text) == CodecOf(x) # "unknown" /\ CharClass(text) \in Repertoire(CodecOf(x))

\* C5: for a content type with an explicit charset=X parameter (X the value
\* of its charset parameter, quotes stripped) and a sample text, get_value
\* returns X when X is a known codec that encodes the text and 'utf-8'
\* otherwise, whatever the media type.
C5_ExplicitCharset ==
    (EncCalled /\ EncIsText /\ Truthy(enc_ct) /\ HasExplicitCharset(enc_ct.segs)) =>
        /\ enc_res.raised = "none"
        /\ enc_res.value = IF Validated(CharsetX(enc_ct.segs), enc_text)
                           THEN CharsetX(enc_ct.segs) ELSE "utf-8"

\* a quoted charset on a media type outside the text family is returned
C5_Witness ==
    /\ EncCalled /\ EncIsText /\ Truthy(enc_ct) /\ HasExplicitCharset(enc_ct.segs)
    /\ enc_ct.segs[1].name = "image/png"
    /\ \E i \in CharsetIdx(enc_ct.segs) : enc_ct.segs[i].q = "sq"
    /\ enc_res.value = "ascii"

\* No segment of the header names charset in any form
NoCharsetParam(segs) ==
    \A i \in 1..Len(segs) : ~IsCharsetSeg(segs[i]) /\ Lower(BaseName(segs[i].name)) # "charset"

\* The media type as written: the first segment, lower-cased
WrittenMediaType(segs) == Lower(SegText(segs[1]))

TextFamily == {"text/plain", "text/html", "text/css", "text/javascript"}

WellFormedMediaType(segs) == SlashCount(segs[1].name) = 1 /\ ~segs[1].eq

C7_NoContentType ==
    (EncCalled /\ (enc_ct = NoneValue \/ enc_ct = EmptyString)) =>
        enc_res = [value |-> "utf-8", raised |-> "none", parsed |-> FALSE, tested |-> FALSE]

\* the empty string with a text no codec of the model encodes
C7_Witness ==
    /\ EncCalled
    /\ enc_ct = EmptyString
    /\ enc_text = "lone-surrogate"
    /\ enc_res.value = "utf-8"

\* C8: get_value never raises: for every content type and every text
\* (a str or None) it returns a charset name.
C8_NeverRaises ==
    EncCalled => (enc_res.raised = "none" /\ enc_res.value # "")

\* C27: whenever get_value returns a charset other than the default
\* 'utf-8', the charset names a known codec that encodes the sample text.
C27_ReturnedIsValidated ==
    (EncCalled /\ enc_res.raised = "none" /\ enc_res.value # DEFAULT_ENCODING) =>
        /\ enc_text # NoneText
        /\ Validated(enc_res.value, enc_text)

\* a declared charset that encodes the text is returned
C27_Witness ==
    /\ EncCalled
    /\ Truthy(enc_ct)
    /\ HasExplicitCharset(enc_ct.segs)
    /\ CharsetX(enc_ct.segs) = "ascii"
    /\ enc_text = "test"
    /\ enc_res = Returned("ascii", TRUE, TRUE)

\* the media types of the model whose type is text
TextSubtypes == {m \in MediaTokens : SlashCount(m) = 1 /\ Lower(m) # "application/json"
                                     /\ Lower(m) # "image/png"}

\* C22: for a content type whose media type is text/<any subtype> and that
\* has no charset parameter, get_value returns 'ISO-8859-1' when the text
\* is encodable in it (rule 3 of the docstring).
C22_TextAnySubtype ==
    (/\ EncCalled /\ EncIsText /\ Truthy(enc_ct) /\ NoCharsetParam(enc_ct.segs)
     /\ WellFormedMediaType(enc_ct.segs)
     /\ enc_ct.segs[1].name \in TextSubtypes
     /\ Validated("ISO-8859-1", enc_text)) =>
        enc_res = Returned("ISO-8859-1", TRUE, TRUE)

(***************************************************************************)
(* Properties of the header merge.                                         *)
(***************************************************************************)
HdrCalled == hdr_calls > 0

\* the keys of a mapping that spell `name` in some letter case
KeysNamed(d, name) == {k \in DOMAIN d : Lower(k) = name}

\* C1: with stealth, every caller header is in the result with the caller's
\* value, and no key is added that equals a caller key case-insensitively.
C1_NoOverwrite ==
    (HdrCalled /\ hdr_stealth) =>
        /\ \A k \in DOMAIN hdr_before : k \in DOMAIN hdr_sent /\ hdr_sent[k] = hdr_before[k]
        /\ \A k \in DOMAIN hdr_sent \ DOMAIN hdr_before :
              \A j \in DOMAIN hdr_before : Lower(k) # Lower(j)

\* the caller's lower-case user-agent is kept and no User-Agent is generated
\* beside it, while the other generated headers are added
C1_Witness ==
    /\ HdrCalled /\ hdr_stealth
    /\ DOMAIN hdr_before = {"user-agent"}
    /\ hdr_sent["user-agent"] = "X"
    /\ "User-Agent" \notin DOMAIN hdr_sent
    /\ "Accept-Language" \in DOMAIN hdr_sent

\* C2: the merge leaves the caller's mapping as it was before the call,
\* with and without stealth.
C2_CallerMappingUntouched == HdrCalled => hdr_caller = hdr_before

\* C3: with stealth and no caller Referer under any letter case, the result
\* has a referer and it is generate_convincing_referer of the engine's url;
\* with a caller Referer, the result's referers are the caller's alone.
C3_Referer ==
    (HdrCalled /\ hdr_stealth) =>
        IF KeysNamed(hdr_before, "referer") = {}
        THEN /\ KeysNamed(hdr_sent, "referer") # {}
             /\ \A k \in KeysNamed(hdr_sent, "referer") :
                   hdr_sent[k] = generate_convincing_referer(hdr_url)
        ELSE /\ KeysNamed(hdr_sent, "referer") = KeysNamed(hdr_before, "referer")
             /\ \A k \in KeysNamed(hdr_sent, "referer") : hdr_sent[k] = hdr_before[k]

\* a first request to the shop with a mapping that has no referer
C3_Witness ==
    /\ hdr_calls = 1 /\ hdr_stealth
    /\ DOMAIN hdr_before = {"X-Custom"}
    /\ hdr_url = "https://shop.test/b"
    /\ hdr_sent["referer"] = "https://www.google.com/search?q=shop"

\* C4: without stealth the result has a User-Agent: the caller's mapping
\* as it is when it has one under any letter case, and else the caller's
\* mapping plus the one key 'User-Agent' with the generated value.
C4_UserAgentOnly ==
    (HdrCalled /\ ~hdr_stealth) =>
        /\ KeysNamed(hdr_sent, "user-agent") # {}
        /\ IF KeysNamed(hdr_before, "user-agent") # {}
           THEN hdr_sent = hdr_before
           ELSE /\ DOMAIN hdr_sent = DOMAIN hdr_before \cup {"User-Agent"}
                /\ hdr_sent["User-Agent"] = hdr_gen["User-Agent"]
                /\ \A k \in DOMAIN hdr_before : hdr_sent[k] = hdr_before[k]

\* a mapping without user agent gets the generated one and nothing else
C4_Witness ==
    /\ HdrCalled /\ ~hdr_stealth
    /\ DOMAIN hdr_before = {"X-Custom", "Referer"}
    /\ DOMAIN hdr_sent = {"X-Custom", "Referer", "User-Agent"}
    /\ hdr_sent["User-Agent"] = "Mozilla/5.0 Firefox"

(***************************************************************************)
(* Properties of the response normalization.                               *)
(***************************************************************************)
RspPrepared == rsp_out # NoResponse

\* C9: the prepared Response's history has one element per redirect hop, in
\* the transport's order, each the Response the same normalization builds
\* from that hop with the same adaptor arguments (its own history
\* included); without redirects the history is empty.
C9_HistoryNormalized ==
    RspPrepared =>
        /\ Len(rsp_out.history) = Len(rsp_in.history)
        /\ \A i \in 1..Len(rsp_in.history) :
              /\ rsp_out.history[i] = prepare_response(rsp_in.history[i], rsp_args)
              /\ rsp_out.history[i].status = rsp_in.history[i].status
              /\ rsp_out.history[i].raised = "none"
              /\ rsp_out.history[i].adaptor_arguments = rsp_out.adaptor_arguments
              /\ Len(rsp_out.history[i].history) = i - 1
        /\ rsp_in.history = << >> => rsp_out.history = << >>

\* a chain of two different hops, 301 then 302
C9_Witness ==
    /\ RspPrepared
    /\ Len(rsp_in.history) = 2
    /\ rsp_in.history[1].status = 301 /\ rsp_in.history[2].status = 302
    /\ rsp_out.history[1].status = 301 /\ rsp_out.history[2].status = 302
    /\ rsp_out.history[2].history[1].status = 301

(***************************************************************************)
(* Properties of the facades.                                              *)
(***************************************************************************)
FcCalled == fc_entry # "none"

\* C10: a custom_config that is not a mapping (a str, a number, a list, of
\* any content) makes every entry point raise before an engine is
\* constructed and before a request is dispatched.
C10_NonMappingRejected ==
    (FcCalled /\ fc_config \in NonMappingConfigs) =>
        /\ fc_error # "none"
        /\ ~fc_built
        /\ ~fc_dispatched

(***************************************************************************)
(* Properties of configure.                                                *)
(***************************************************************************)
CfgCalled == cfg_error # "pending"

\* the key is none of the parser keywords after strip and lower
UnknownKey(key) == Lower(Strip(key)) \notin parser_keywords

HasUnknownKey(kwargs) == \E i \in 1..Len(kwargs) : UnknownKey(kwargs[i][1])

\* C11: a configure call with an unknown key among its keyword arguments
\* raises AttributeError or ValueError and leaves the class's parser
\* attributes as they were, whatever valid keys it carries and in whatever
\* order.
C11_UnknownKeyLeavesDefaults ==
    (CfgCalled /\ HasUnknownKey(cfg_kwargs)) =>
        /\ cfg_error \in {"AttributeError", "ValueError"}
        /\ parser_defaults = cfg_before

(***************************************************************************)
(* Properties of _generate_parser_arguments.                               *)
(***************************************************************************)
SixKeys == {"huge_tree", "keep_comments", "keep_cdata", "auto_match", "storage", "storage_args"}

\* a non-empty value of exactly type str
NonEmptyStr(v) == v.type = "str" /\ v.val # ""

\* C29: _generate_parser_arguments returns the six parser keys with the
\* class's current values, and automatch_domain with them if and only if
\* the class's automatch_domain is a non-empty value of exactly type str;
\* a truthy value of another type that configure accepted is left out.
C29_ParserArguments ==
    pa_res.called =>
        /\ SixKeys \subseteq DOMAIN pa_res.arguments
        /\ DOMAIN pa_res.arguments \subseteq SixKeys \cup {"automatch_domain"}
        /\ \A k \in SixKeys : pa_res.arguments[k] = pa_res.attrs[k]
        /\ "automatch_domain" \in DOMAIN pa_res.arguments
              <=> NonEmptyStr(pa_res.attrs["automatch_domain"])
        /\ "automatch_domain" \in DOMAIN pa_res.arguments
              => pa_res.arguments["automatch_domain"] = pa_res.attrs["automatch_domain"]

\* the arguments generated after configure(automatch_domain=5) and
\* configure(huge_tree=False): the domain is left out, huge_tree is False
C29_Witness ==
    /\ pa_res.called
    /\ pa_res.attrs["automatch_domain"] = Py("int", "5")
    /\ pa_res.attrs["huge_tree"] = PyFalse
    /\ "automatch_domain" \notin DOMAIN pa_res.arguments

\* the keys of the last configure call after strip and lower
NormalizedKeys == [i \in 1..Len(cfg_kwargs) |-> Lower(Strip(cfg_kwargs[i][1]))]

\* the positions of the keys that are no parser keyword
Offending == {i \in 1..Len(cfg_kwargs) : NormalizedKeys[i] \notin parser_keywords}

\* the first of them: the loop stops there
FirstOffending == CHOOSE i \in Offending : \A j \in Offending : i <= j

\* hasattr(cls, key)
IsClassAttribute(key) == key \in parser_keywords \cup OtherClassAttributes

\* the last keyword argument that names the parser keyword of position i
LastOfKey(i) ==
    \A j \in 1..Len(cfg_kwargs) : NormalizedKeys[j] = NormalizedKeys[i] => j <= i

\* C30: with every key stripped and lower-cased, configure raises
\* AttributeError at a key that names a class attribute outside
\* parser_keywords, ValueError at a key that names no class attribute, and
\* AttributeError when it is given no keyword; a call whose keys are all
\* parser keywords raises nothing and leaves every one of them set to the
\* value supplied for it on the class.
C30_ErrorClassification ==
    CfgCalled =>
        /\ cfg_kwargs = << >> => cfg_error = "AttributeError"
        /\ Offending # {} =>
              cfg_error = IF IsClassAttribute(NormalizedKeys[FirstOffending])
                          THEN "AttributeError" ELSE "ValueError"
        /\ (cfg_kwargs # << >> /\ Offending = {}) =>
              /\ cfg_error = "none"
              /\ \A i \in 1..Len(cfg_kwargs) :
                    LastOfKey(i) => parser_defaults[NormalizedKeys[i]] = cfg_kwargs[i][2]

\* configure(**{' Keep_Comments ': 'example.org', 'huge_tree': False}) has
\* returned: both attributes are set
C30_Witness ==
    /\ cfg_error = "none"
    /\ cfg_kwargs = << <<" Keep_Comments ", Py("str", "example.org")>>, <<"huge_tree", PyFalse>> >>
    /\ parser_defaults["keep_comments"] = Py("str", "example.org")
    /\ parser_defaults["huge_tree"] = PyFalse

(***************************************************************************)
(* Properties of the static request path.                                  *)
(***************************************************************************)
RqEnded == rq_pc \in {"returned", "raised"}
RqAnswer == rq_in.env.answer

\* the server answered 200 with Content-Type text/plain and no charset
PlainTextAnswer ==
    /\ RqAnswer.kind = "response"
    /\ RqAnswer.status = 200
    /\ RqAnswer.media = "text/plain"
    /\ RqAnswer.charset = NoneEncoding

\* C12 as stated: a GET answered 200 with Content-Type text/plain and no
\* charset gives a Response with status 200 and encoding ISO-8859-1.
C12_AsStated ==
    (RqEnded /\ rq_in.verb = "get" /\ PlainTextAnswer) =>
        /\ rq_pc = "returned"
        /\ rq_result.response.status = 200
        /\ rq_result.response.encoding = "ISO-8859-1"

\* C12 amended: the same when the body text is encodable in ISO-8859-1;
\* for a body that is not, the encoding is utf-8.
C12_EndToEnd ==
    (RqEnded /\ rq_in.verb = "get" /\ PlainTextAnswer) =>
        /\ rq_pc = "returned"
        /\ rq_result.response.status = 200
        /\ rq_result.response.encoding =
              IF Validated("ISO-8859-1", RqAnswer.text) THEN "ISO-8859-1" ELSE "utf-8"

\* a plain-text answer whose encoding the transport leaves unset
C12_Witness ==
    /\ rq_pc = "returned" /\ rq_in.verb = "get" /\ PlainTextAnswer
    /\ RqAnswer.detected = NoneEncoding
    /\ RqAnswer.text = "test"
    /\ rq_result.response.encoding = "ISO-8859-1"

\* what a caller and the transport see of a path: the client's proxy and
\* retry count, the verb call, and the Response or the exception
Observed(path) ==
    [proxy |-> path.client.proxy, retries |-> path.client.retries,
     call |-> path.call, result |-> path.result]

\* C13: for the same verb, options, headers, generated headers and
\* transport behaviour, Fetcher.<verb> and AsyncFetcher.<verb> send the
\* same headers with the same proxy, retries, timeout and follow_redirects
\* and give the same Response or the same exception; the request that ran
\* did what both paths do.
C13_SyncAsyncEquivalent ==
    rq_in # NoRequest =>
        LET sync == Observed(FetcherVerb(rq_in.verb, rq_in.options, rq_in.env))
            async == Observed(AsyncFetcherVerb(rq_in.verb, rq_in.options, rq_in.env))
        IN  /\ sync = async
            /\ RqEnded =>
                  /\ rq_result = sync.result
                  /\ rq_sent = <<[client |-> rq_client.id, call |-> sync.call]>>
                  /\ rq_client.config.proxy = sync.proxy
                  /\ rq_client.config.retries = sync.retries

\* an async delete through a proxy, answered
C13_Witness ==
    /\ rq_pc = "returned"
    /\ rq_in.mode = "async" /\ rq_in.verb = "delete"
    /\ rq_client.config.kind = "AsyncClient"
    /\ rq_client.config.proxy = "http://localhost:8030"
    /\ rq_sent[1].call.method = "delete"

\* C14: a request opens one client and the client is closed when the call
\* returns or raises; between calls no client is open, the verb call is
\* made on the client this request opened while it is open, and every
\* request has a client of its own.
C14_ClientScoped ==
    /\ Cardinality(open_clients) <= 1
    /\ rq_pc \in {"idle", "entered", "closed", "returned", "raised"} => open_clients = {}
    /\ rq_pc \in {"open", "called"} =>
          /\ open_clients = {rq_client.id}
          /\ rq_client.id \notin closed_clients
    /\ \A i \in 1..Len(rq_sent) : rq_sent[i].client = rq_client.id
    /\ RqEnded =>
          /\ rq_client.id = rq_count
          /\ closed_clients = 1..rq_count

\* the second request fails in the transport and leaves two closed clients
C14_Witness ==
    /\ rq_pc = "raised"
    /\ rq_count = 2
    /\ RqAnswer.kind = "error"
    /\ open_clients = {}
    /\ closed_clients = {1, 2}

\* C15: an error of the transport leaves the call as the same error: the
\* call raises it, gives no Response, and has made its one verb call.
C15_TransportErrorPropagates ==
    (RqEnded /\ RqAnswer.kind = "error") =>
        /\ rq_pc = "raised"
        /\ rq_result.raised = RqAnswer.error
        /\ rq_result.response = NoResponse
        /\ Len(rq_sent) = 1

\* an async request that times out
C15_Witness ==
    /\ rq_pc = "raised"
    /\ rq_in.mode = "async"
    /\ RqAnswer.kind = "error" /\ RqAnswer.error = "ReadTimeout"
    /\ rq_result.raised = "ReadTimeout"

\* C16: a call makes one verb call on its client, of the verb of the entry
\* point, for the engine's url, on a transport with the caller's retry
\* count; no second attempt follows a failure.
C16_OneTransportCall ==
    /\ rq_pc \in {"idle", "entered", "open"} => Len(rq_sent) = 0
    /\ rq_pc \in {"called", "closed", "returned", "raised"} =>
          /\ Len(rq_sent) = 1
          /\ rq_sent[1].call.method = rq_in.verb
          /\ rq_sent[1].call.url = rq_in.options.url
          /\ rq_client.config.retries = rq_in.options.retries

\* a failed put with a retry count of 0, made once
C16_Witness ==
    /\ rq_pc = "raised"
    /\ rq_in.verb = "put"
    /\ rq_in.options.retries = 0
    /\ Len(rq_sent) = 1
    /\ rq_sent[1].call.method = "put"

(***************************************************************************)
(* Properties of the merge of custom_config and of the engine cache.       *)
(***************************************************************************)
StaticEntry == fc_entry \in {"Fetcher.get", "AsyncFetcher.get"}

\* the last call gave no custom_config or a mapping
MappingGiven == fc_config \in {NoConfig} \cup MappingConfigs

\* the adaptor arguments hold every key of custom_config with its value
\* and every other parser keyword with the class's value
MergedOverAllDefaults ==
    /\ \A k \in DOMAIN fc_config.items :
          k \in DOMAIN fc_args /\ fc_args[k] = fc_config.items[k]
    /\ \A k \in parser_keywords \ DOMAIN fc_config.items :
          k \in DOMAIN fc_args /\ fc_args[k] = parser_defaults[k]

\* the same, with automatch_domain taken from the class only when the
\* class's value is a non-empty str, and left out otherwise
MergedOverDefaults ==
    LET given == DOMAIN fc_config.items
        domain_set == /\ parser_defaults["automatch_domain"].type = "str"
                      /\ PyTruthy(parser_defaults["automatch_domain"])
    IN  /\ \A k \in given : k \in DOMAIN fc_args /\ fc_args[k] = fc_config.items[k]
        /\ \A k \in (parser_keywords \ {"automatch_domain"}) \ given :
              k \in DOMAIN fc_args /\ fc_args[k] = parser_defaults[k]
        /\ "automatch_domain" \notin given =>
              IF domain_set
              THEN /\ "automatch_domain" \in DOMAIN fc_args
                   /\ fc_args["automatch_domain"] = parser_defaults["automatch_domain"]
              ELSE "automatch_domain" \notin DOMAIN fc_args
        /\ DOMAIN fc_args \subseteq parser_keywords \cup given

\* a step of an entry point
RequestStep == fcVars' # fcVars

\* C17 as stated: a request with a custom_config hands its engine every
\* key of custom_config with its value and every other parser default key
\* with the class's current value, and leaves the class's defaults as they
\* were.
C17_AsStated ==
    [][(RequestStep /\ MappingGiven') =>
          (MergedOverAllDefaults' /\ parser_defaults' = parser_defaults)]_vars

\* C17 amended: the same for the six parser keywords other than
\* automatch_domain; automatch_domain of the class is handed on only when
\* it is a non-empty str and is absent from the adaptor arguments
\* otherwise.
C17_MergedOverDefaults ==
    [][(RequestStep /\ MappingGiven') =>
          (MergedOverDefaults' /\ parser_defaults' = parser_defaults)]_vars

\* a custom_config over a class whose keep_comments is False and whose
\* automatch_domain was configured
C17_Witness ==
    /\ StaticEntry
    /\ fc_config \in MappingConfigs
    /\ fc_dispatched
    /\ "keep_comments" \in DOMAIN fc_config.items
    /\ {"keep_comments", "automatch_domain", "huge_tree"} \subseteq DOMAIN fc_args
    /\ parser_defaults["keep_comments"] = PyFalse
    /\ parser_defaults["automatch_domain"] = Py("str", "example.org")
    /\ fc_args["keep_comments"] = PyTrue
    /\ fc_args["automatch_domain"] = Py("str", "example.org")
    /\ fc_args["huge_tree"] = PyTrue

\* the engine a constructor builds from the arguments of the last call
FreshEngine ==
    StaticEngineInit(Bind(<<fc_url, NoneProxy, TRUE, TRUE, 10, 3>>,
                          [k \in {"adaptor_arguments"} |-> fc_args]))

\* every engine the cache holds is the engine its key's arguments build,
\* and the cache holds at most LruMaxSize engines under different keys
CacheEntriesFresh ==
    /\ Len(engine_cache) <= LruMaxSize
    /\ \A i \in 1..Len(engine_cache) :
          /\ engine_cache[i].engine =
                StaticEngineInit(Bind(engine_cache[i].key.args, engine_cache[i].key.kwds))
          /\ \A j \in 1..Len(engine_cache) :
                engine_cache[i].key = engine_cache[j].key => i = j

\* C20: in any sequence of Fetcher and AsyncFetcher calls and configure
\* calls, a call with a mapping (or no) custom_config goes as with a
\* newly constructed engine: it is answered, and the engine it used has
\* the url, proxy, stealth flag, follow_redirects, timeout, retries and
\* adaptor arguments of the call.
C20_CacheNeverStale ==
    /\ CacheEntriesFresh
    /\ (StaticEntry /\ MappingGiven) =>
          /\ fc_error = "none"
          /\ fc_dispatched
          /\ fc_engine = FreshEngine

\* C21: a Fetcher or AsyncFetcher call with a mapping (or no) custom_config,
\* under any parser configuration of the class, reaches the transport and
\* ends with a Response or with the transport's error, and the engine's
\* adaptor arguments, which it hands to the parser, are those of the call.
C21_StaticPathReachesTransport ==
    (StaticEntry /\ MappingGiven) =>
        /\ fc_dispatched
        /\ fc_error \in {"none"} \cup TransportErrors
        /\ fc_engine.adaptor_arguments = fc_args


(***************************************************************************)
(* The engine check of CustomFetcher.                                      *)
(***************************************************************************)
CeCalled == ce_res # NoCheck

\* engine.fetch(url) has a parameter to take the url
FetchTakesUrl(engine) == FetchCallable(engine) /\ CallParameters(engine) >= 1

\* C18: check_if_engine_usable returns the engine class only when it has a
\* fetch attribute that is callable and accepts an argument for the URL,
\* and raises TypeError when fetch is missing, not callable, or takes no
\* URL argument; in CustomFetcher.fetch a TypeError of the check leaves
\* the engine not instantiated and no fetch performed.
C18_EngineUsable ==
    CeCalled =>
        /\ (ce_res.check = "returned") <=>
               (HasFetch(ce_engine) /\ FetchCallable(ce_engine) /\ FetchTakesUrl(ce_engine))
        /\ (ce_res.check = "TypeError") =>
               (ce_res.error = "TypeError" /\ ~ce_res.instantiated /\ ~ce_res.fetched)

(***************************************************************************)
(* check_type_validity.                                                    *)
(***************************************************************************)
TvCalled == tv_res # NoTypeCheck

TvTypes == NormalizeValidTypes(tv_in.valid_types)

InstanceOfValidType == \E i \in 1..Len(TvTypes) : IsInstance(tv_in.variable, TvTypes[i])

NoneAllowed == tv_in.variable = PyNone /\ InList("NoneType", TvTypes)

ValueUnconstrained == tv_in.variable # PyNone /\ TvTypes = << >>

\* the outcome when the variable is not returned
TvFailure ==
    IF tv_in.critical THEN tv_res.kind = "raised" /\ tv_res.exc = "TypeError"
    ELSE tv_res = TvReturned(tv_in.default_value)

\* C19 as stated: the variable is returned unchanged when it is an
\* instance of one of valid_types, when it is None and NoneType is among
\* valid_types, or when it is not None and valid_types is empty or None;
\* in every other case TypeError is raised iff critical, else
\* default_value is returned.
C19_AsStated ==
    TvCalled =>
        /\ IF InstanceOfValidType \/ NoneAllowed \/ ValueUnconstrained
           THEN tv_res = TvReturned(tv_in.variable)
           ELSE TvFailure
        /\ ~tv_in.critical => tv_res.kind = "returned"

\* C19: the variable is returned unchanged when it is not None and an
\* instance of one of valid_types, when it is None and NoneType is among
\* valid_types, or when it is not None and valid_types is empty or None;
\* in every other case TypeError is raised iff critical, else
\* default_value is returned; with critical false nothing is raised.
C19_TypeValidity ==
    TvCalled =>
        /\ IF (tv_in.variable # PyNone /\ InstanceOfValidType) \/ NoneAllowed
              \/ ValueUnconstrained
           THEN tv_res = TvReturned(tv_in.variable)
           ELSE TvFailure
        /\ ~tv_in.critical => tv_res.kind = "returned"

\* a critical call that raised on a value of a type not listed
C19_Witness ==
    /\ TvCalled
    /\ tv_in.critical
    /\ tv_in.variable = Py("int", "5")
    /\ tv_in.valid_types = [none |-> FALSE, list |-> <<"str">>]
    /\ tv_res = TvRaised("TypeError")


(***************************************************************************)
(* Properties of configure over the fetcher classes.                       *)
(***************************************************************************)
\* the last call was a BaseFetcher.configure(k=v) that raised nothing
BaseConfigured ==
    /\ cls_call.cls = "BaseFetcher"
    /\ cls_call.error = "none"

\* C23: after any earlier configure calls on the classes, a successful
\* BaseFetcher.configure(k=v) makes, for every fetcher class,
\* display_config()[k] = v and the generated parser arguments hold k = v.
C23_ConfigureIsGlobal ==
    BaseConfigured =>
        \A c \in FetcherClasses \ {"BaseFetcher"} :
            \A i \in 1..Len(cls_call.kwargs) :
                LET k == Lower(Strip(cls_call.kwargs[i][1]))
                    v == cls_call.kwargs[i][2]
                    attrs == ClassAttributes(cls_own, c)
                IN  /\ display_config(attrs)[k] = v
                    /\ k \in DOMAIN generate_parser_arguments(attrs)
                    /\ generate_parser_arguments(attrs)[k] = v


(***************************************************************************)
(* The engine cache as an LRU.                                             *)
(***************************************************************************)
\* the cache key of the last call, as the call wrote its arguments
LastKey ==
    IF fc_entry = "Fetcher.get" THEN FetcherEngineKey(DefaultOptions(fc_url), fc_args)
    ELSE AsyncFetcherEngineKey(DefaultOptions(fc_url), fc_args)

\* the arguments of the last call, bound to the constructor's parameters
LastBound == Bind(LastKey.args, LastKey.kwds)

\* the arguments of a cache entry, bound to the constructor's parameters
EntryBound(entry) == Bind(entry.key.args, entry.key.kwds)

\* the cache entry of the last call
NewestEntry == [key |-> LastKey, engine |-> fc_engine]

\* the cache a miss leaves: the least recently used entry gone when the
\* cache was full
AfterMiss(cache) == IF Len(cache) >= LruMaxSize THEN Tail(cache) ELSE cache

\* a step that is a Fetcher.get or AsyncFetcher.get call
ConstructionStep == RequestStep /\ StaticEntry' /\ MappingGiven'

\* C28 as stated: at most two engines are retained; a construction whose
\* arguments equal those of a retained entry in value and type returns
\* that instance without running __init__ and makes it the most recent;
\* any other construction builds a new engine, evicting the least
\* recently used one when two are retained.
C28_AsStated ==
    [][ConstructionStep =>
          /\ Len(engine_cache') <= LruMaxSize
          /\ IF \E i \in 1..Len(engine_cache) : EntryBound(engine_cache[i]) = LastBound'
             THEN /\ ~fc_built'
                  /\ \E i \in 1..Len(engine_cache) :
                        /\ EntryBound(engine_cache[i]) = LastBound'
                        /\ fc_engine' = engine_cache[i].engine
                        /\ engine_cache' =
                              Append(SelectSeq(engine_cache, LAMBDA e : e # engine_cache[i]),
                                     engine_cache[i])
             ELSE /\ fc_built'
                  /\ fc_engine' = StaticEngineInit(LastBound')
                  /\ engine_cache' = Append(AfterMiss(engine_cache), NewestEntry')]_vars

\* C28 amended: an entry is matched on the call as it is written, its
\* positional arguments and its keyword arguments; a call whose arguments
\* cannot be hashed raises TypeError and leaves the cache as it is.
C28_LruOfCalls ==
    [][ConstructionStep =>
          /\ Len(engine_cache') <= LruMaxSize
          /\ IF ~KeyHashable(LastKey')
             THEN /\ fc_error' = "TypeError"
                  /\ ~fc_built'
                  /\ engine_cache' = engine_cache
             ELSE IF InCache(engine_cache, LastKey')
             THEN /\ ~fc_built'
                  /\ fc_engine' = CachedEngine(engine_cache, LastKey')
                  /\ engine_cache' = Append(Without(engine_cache, LastKey'), NewestEntry')
             ELSE /\ fc_built'
                  /\ fc_engine' = StaticEngineInit(LastBound')
                  /\ engine_cache' = Append(AfterMiss(engine_cache), NewestEntry')]_vars

\* a call answered by one of two retained engines, which is then the most
\* recent one
C28_Witness ==
    /\ StaticEntry
    /\ fc_error = "none"
    /\ ~fc_built
    /\ Len(engine_cache) = LruMaxSize
    /\ engine_cache[LruMaxSize] = [key |-> LastKey, engine |-> fc_engine]

(***************************************************************************)
(* The encoding of the Response of a static request.                       *)
(***************************************************************************)
\* the server's Content-Type declares a charset that encodes the body
DeclaredCharsetAnswer ==
    /\ RqAnswer.kind = "response"
    /\ RqAnswer.charset # NoneEncoding
    /\ Validated(RqAnswer.charset, RqAnswer.text)

\* C26: a static request whose server declares charset=X in its
\* Content-Type, X encoding the body text, returns a Response whose
\* encoding is X.
C26_DeclaredCharsetKept ==
    (RqEnded /\ DeclaredCharsetAnswer) =>
        /\ rq_pc = "returned"
        /\ rq_result.response.encoding = RqAnswer.charset

(***************************************************************************)
(* Requests made one after the other with one headers mapping.             *)
(***************************************************************************)
\* a step that is the second request of a caller whose first request was
\* a stealth request, made with a mapping that held no referer, and whose
\* second request is a stealth request for another url
SecondStealthRequest ==
    /\ hdr_calls = 1
    /\ hdr_calls' = 2
    /\ hdr_stealth /\ hdr_stealth'
    /\ ~hdr_none
    /\ KeysNamed(hdr_before, "referer") = {}
    /\ hdr_url' # hdr_url

\* C25: in a sequence of stealth requests for different urls that are all
\* given one headers mapping, which held no referer at first, each request
\* sends the referer generated for its own url and the stealth headers
\* generated for it (where the caller's own headers do not stand).
C25_RefererOfOwnUrl ==
    [][SecondStealthRequest =>
          /\ KeysNamed(hdr_sent', "referer") = {"referer"}
          /\ hdr_sent'["referer"] = generate_convincing_referer(hdr_url')
          /\ \A k \in DOMAIN hdr_gen' :
                (\A j \in DOMAIN hdr_before : Lower(j) # Lower(k)) =>
                    (k \in DOMAIN hdr_sent' /\ hdr_sent'[k] = hdr_gen'[k])]_vars

(***************************************************************************)
(* Properties of concurrent requests.                                      *)
(***************************************************************************)
\* the headers a request sends when it runs alone
HeadersAlone(t) ==
    LET engine == CachedEngines[cc_task[t].engine]
    IN  headers_job(engine.stealth, engine.url, cc_task[t].arg = "none",
                    IF cc_task[t].arg = "none" THEN EmptyDict ELSE CallerMapping,
                    cc_task[t].gen).result

\* what a request gives its caller when it runs alone
ResultAlone(t) == RequestResult(CachedEngines[cc_task[t].engine], cc_task[t].answer)

\* C24: in every interleaving of the requests, no request writes an engine
\* field, and the headers each request sends and the Response or error it
\* ends with are those of its own arguments and its own transport reply.
C24_RequestsIndependent ==
    /\ cc_engines = CachedEngines
    /\ \A t \in Tasks :
          /\ cc_task[t].pc \in {"sent", "done"} => cc_task[t].sent = HeadersAlone(t)
          /\ cc_task[t].pc = "done" => cc_task[t].result = ResultAlone(t)

====
